---- MODULE Spec2Model ----
(***************************************************************************)
(* A model of chromite's Google Storage client (lib/gs.py): GSContext,     *)
(* its command execution and retry filter, and the generation-based       *)
(* counter GSCounter, together with the object store the gsutil tool      *)
(* talks to.                                                               *)
(*                                                                         *)
(* Text (paths, command words, headers, tool output) is a sequence of     *)
(* atoms; a number inside a text is its sequence of decimal digit atoms.  *)
(* An optional Python value is a sequence: <<>> is None, <<v>> is v.      *)
(***************************************************************************)
EXTENDS Integers, Sequences, FiniteSets, TLC

\* ------------------------------------------------------------- bounds
MaxRetries == 2
MaxCalls == 3
MaxRemoves == 1
MaxFaults == 3
MaxOps == 1
MaxUrlLen == 3
MaxMarkers == 2
MaxBinCalls == 2
MaxEnvCalls == 4
GenBase == 11

Clients == {"c1", "c2"}
OpsClients == {"c1"}

\* ------------------------------------------------------------- text
Digits == <<"0", "1", "2", "3", "4", "5", "6", "7", "8", "9">>
IsDigit(a) == \E i \in 1..10 : Digits[i] = a
DigitVal(a) == (CHOOSE i \in 1..10 : Digits[i] = a) - 1

RECURSIVE IntToStr(_)
IntToStr(n) ==
  IF n < 10 THEN <<Digits[n + 1]>>
  ELSE IntToStr(n \div 10) \o <<Digits[(n % 10) + 1]>>

RECURSIVE StrToInt(_)
StrToInt(s) ==
  IF Len(s) = 1 THEN DigitVal(s[1])
  ELSE 10 * StrToInt(SubSeq(s, 1, Len(s) - 1)) + DigitVal(s[Len(s)])

Contains(text, a) == \E i \in 1..Len(text) : text[i] = a

\* the longest run of digits of text that starts at position i
RECURSIVE DigitRun(_, _)
DigitRun(text, i) ==
  IF i <= Len(text) /\ IsDigit(text[i])
  THEN <<text[i]>> \o DigitRun(text, i + 1) ELSE <<>>

\* ------------------------------------------------------------- paths
PUBLIC_BASE_HTTPS_URL == "https://commondatastorage.googleapis.com/"
PRIVATE_BASE_HTTPS_URL == "https://storage.cloud.google.com/"
BASE_GS_URL == "gs://"
StartsWith(path, prefix) == Len(path) >= 1 /\ path[1] = prefix

\* url.replace(prefix, by): every occurrence of prefix in url becomes by
Replace(url, prefix, by) ==
  [i \in 1..Len(url) |-> IF url[i] = prefix THEN by ELSE url[i]]

\* CanonicalizeURL(url, strict): the URL it returns, or ValueError
CanonicalizeURL(url, strict) ==
  IF StartsWith(url, PUBLIC_BASE_HTTPS_URL)
  THEN [status |-> "returned", value |-> Replace(url, PUBLIC_BASE_HTTPS_URL, BASE_GS_URL),
        exc |-> ""]
  ELSE IF StartsWith(url, PRIVATE_BASE_HTTPS_URL)
  THEN [status |-> "returned", value |-> Replace(url, PRIVATE_BASE_HTTPS_URL, BASE_GS_URL),
        exc |-> ""]
  ELSE IF ~StartsWith(url, BASE_GS_URL) /\ strict
  THEN [status |-> "raised", value |-> <<>>, exc |-> "ValueError"]
  ELSE [status |-> "returned", value |-> url, exc |-> ""]

CounterPath == <<BASE_GS_URL, "b", "/", "counter">>
LatestPath == <<BASE_GS_URL, "b", "/", "LATEST-1">>
LatestSrc == <<BASE_GS_URL, "b", "/", "LATEST-0">>
LocalFile == <<"/", "tmp", "/", "f">>
RemoteDir == <<BASE_GS_URL, "b", "/", "dir">>
\* two objects of one bucket: gs://b/a/b and gs://b/a_b
DestSlash == <<BASE_GS_URL, "b", "/", "a", "/", "b">>
DestUnder == <<BASE_GS_URL, "b", "/", "a", "_", "b">>
Stdin == <<"-">>
GsutilBin == <<"gsutil">>

\* ------------------------------------------------------------- exceptions
GSContextPreconditionFailed == "GSContextPreconditionFailed"
GSNoSuchKey == "GSNoSuchKey"
RunCommandError == "RunCommandError"
GSContextException == "GSContextException"

\* ------------------------------------------------------------- the tool's messages
PreconditionText == <<"GSResponseError", ": status=412, ", "code=PreconditionFailed">>
\* how each subcommand words its answer for an object that does not exist
NotFoundText(sub) ==
  CASE sub = <<"getacl">> -> <<"GSResponseError", ": status=404, ", "code=NoSuchKey">>
    [] sub = <<"cat">> -> <<"InvalidUriError:", " Attempt to get key for ">>
    [] sub = <<"rm">> -> <<"CommandException: No URIs matched">>
    [] OTHER -> <<"CommandException: One or more URIs matched no objects">>
RESUMABLE_UPLOAD_ERROR == "Too many resumable upload attempts failed without progress"
RESUMABLE_DOWNLOAD_ERROR == "Too many resumable download attempts failed without progress"
AUTHORIZATION_ERRORS == {"no configured", "detail=Authorization"}

\* ------------------------------------------------------------- the store
VARIABLES store, genClock

HasObject(st, path) == path \in DOMAIN st
CurGen(st, path) == IF HasObject(st, path) THEN st[path].gen ELSE 0
PutObject(st, path, content, gen) ==
  [p \in (DOMAIN st) \cup {path} |->
     IF p = path THEN [gen |-> gen, metagen |-> 1, content |-> content] ELSE st[p]]
DelObject(st, path) == [p \in (DOMAIN st) \ {path} |-> st[p]]

\* ------------------------------------------------------------- the gsutil tool
\* gsutil [-h header]... [-d] subcommand args
RECURSIVE HeaderArgs(_, _)
HeaderArgs(cmd, i) ==
  IF i + 1 <= Len(cmd) /\ cmd[i] = <<"-h">>
  THEN <<cmd[i + 1]>> \o HeaderArgs(cmd, i + 2) ELSE <<>>
ToolHeaders(cmd) == HeaderArgs(cmd, 2)
ToolArgs(cmd) == SubSeq(cmd, 2 + 2 * Len(ToolHeaders(cmd)), Len(cmd))
ToolDebug(cmd) == Len(ToolArgs(cmd)) >= 1 /\ ToolArgs(cmd)[1] = <<"-d">>
ToolSub(cmd) == IF ToolDebug(cmd) THEN Tail(ToolArgs(cmd)) ELSE ToolArgs(cmd)

\* the generations the command's conditional headers ask for
IfGenerationMatch(cmd) ==
  { StrToInt(Tail(ToolHeaders(cmd)[i])) : i \in
      { j \in 1..Len(ToolHeaders(cmd)) :
          /\ Len(ToolHeaders(cmd)[j]) >= 2
          /\ ToolHeaders(cmd)[j][1] = "x-goog-if-generation-match:" } }

\* a write with expected generations is accepted only when each of them is the
\* object's current generation, 0 standing for "no version exists"
WriteAccepted(st, path, expected) == \A g \in expected : g = CurGen(st, path)

Result(cmd, rc, output, error) ==
  [cmd |-> cmd, returncode |-> rc, output |-> output, error |-> error]

DebugHeaders(obj, hide) ==
  (IF "x-goog-generation" \in hide THEN <<>>
   ELSE <<"header: ", "x-goog-generation", ": ">> \o IntToStr(obj.gen) \o <<"\n">>)
  \o
  (IF "x-goog-metageneration" \in hide THEN <<>>
   ELSE <<"header: ", "x-goog-metageneration", ": ">> \o IntToStr(obj.metagen) \o <<"\n">>)

\* gsutil cp src dst
ToolCp(cmd, src, dst, input, st, clock) ==
  IF StartsWith(src, BASE_GS_URL) /\ ~HasObject(st, src)
  THEN [store |-> st, genClock |-> clock,
        res |-> Result(cmd, 1, <<>>, NotFoundText(<<"cp">>))]
  ELSE IF ~StartsWith(dst, BASE_GS_URL)
  THEN [store |-> st, genClock |-> clock, res |-> Result(cmd, 0, <<>>, <<>>)]
  ELSE IF WriteAccepted(st, dst, IfGenerationMatch(cmd))
  THEN [store |-> PutObject(st, dst,
                    IF src = Stdin THEN input
                    ELSE IF StartsWith(src, BASE_GS_URL) THEN st[src].content
                    ELSE <<"data">>,
                    clock + 1),
        genClock |-> clock + 1,
        res |-> Result(cmd, 0, <<>>, <<>>)]
  ELSE [store |-> st, genClock |-> clock, res |-> Result(cmd, 1, <<>>, PreconditionText)]

\* the subcommand sub with its arguments a (a[1] = sub)
ToolSubcommand(cmd, a, sub, input, st, clock, hide) ==
  LET same == [store |-> st, genClock |-> clock]
      notfound == same @@ [res |-> Result(cmd, 1, <<>>, NotFoundText(sub))]
  IN
  CASE sub = <<"cat">> ->
         IF HasObject(st, a[2])
         THEN same @@ [res |-> Result(cmd, 0, st[a[2]].content, <<>>)]
         ELSE notfound
    [] sub = <<"getacl">> ->
         IF HasObject(st, a[2])
         THEN same @@ [res |-> Result(cmd, 0,
                 (IF ToolDebug(cmd) THEN DebugHeaders(st[a[2]], hide) ELSE <<>>)
                   \o <<"<acl>">>, <<>>)]
         ELSE notfound
    [] sub = <<"rm">> ->
         IF HasObject(st, a[2])
         THEN [store |-> DelObject(st, a[2]), genClock |-> clock,
               res |-> Result(cmd, 0, <<>>, <<>>)]
         ELSE notfound
    [] sub = <<"setacl">> ->
         IF HasObject(st, a[3])
         THEN [store |-> [st EXCEPT ![a[3]].metagen = @ + 1], genClock |-> clock,
               res |-> Result(cmd, 0, <<>>, <<>>)]
         ELSE notfound
    [] sub = <<"cp">> -> ToolCp(cmd, a[Len(a) - 1], a[Len(a)], input, st, clock)
    [] OTHER -> same @@ [res |-> Result(cmd, 1, <<>>, <<"CommandException: Invalid command">>)]

ToolArguments(cmd, a, input, st, clock, hide) ==
  ToolSubcommand(cmd, a, IF Len(a) >= 1 THEN a[1] ELSE <<>>, input, st, clock, hide)

\* What one run of the tool does to the store and answers, when nothing outside
\* the store goes wrong. hide names the debug headers the answer leaves out.
ToolRun(cmd, input, st, clock, hide) ==
  ToolArguments(cmd, ToolSub(cmd), input, st, clock, hide)

\* ------------------------------------------------------------- failure classes
\* The class of a failed result by the rules of the error taxonomy, in their
\* priority order; "" for a result that is no failure.
PreconditionMarked(error) ==
  Contains(error, "GSResponseError") /\ Contains(error, "code=PreconditionFailed")
NotFoundMarked(error) ==
  \/ Contains(error, "GSResponseError") /\ Contains(error, "code=NoSuchKey")
  \/ Contains(error, "InvalidUriError:")
  \/ Contains(error, "CommandException: No URIs matched")
  \/ Contains(error, "CommandException: One or more URIs matched no objects")
ResumableMarked(error) ==
  Contains(error, RESUMABLE_UPLOAD_ERROR) \/ Contains(error, RESUMABLE_DOWNLOAD_ERROR)
AuthorizationMarked(error) == \E m \in AUTHORIZATION_ERRORS : Contains(error, m)
FailureClass(res) ==
  IF res.returncode = 0 THEN ""
  ELSE IF res.returncode < 0 THEN "SignalTerminated"
  ELSE IF PreconditionMarked(res.error) THEN "PreconditionFailed"
  ELSE IF NotFoundMarked(res.error) THEN "NotFound"
  ELSE IF ResumableMarked(res.error) THEN "ResumableTransferFailure"
  ELSE IF AuthorizationMarked(res.error) THEN "AuthorizationFailure"
  ELSE "Generic"

\* ------------------------------------------------------------- local commands
\* cat and ls of a local path are run directly, not through gsutil
LocalRun(cmd) ==
  IF Len(cmd) >= 2 /\ cmd[Len(cmd)] = LocalFile
  THEN Result(cmd, 0, <<"data">>, <<>>)
  ELSE Result(cmd, 1, <<>>, <<"No such file or directory">>)

\* ------------------------------------------------------------- faults
\* A fault is a run of the tool that fails without touching the store, with any
\* exit status and any error text. A run ended by a signal is classified by
\* its status alone, so three texts stand for all of them there.
FaultCodes == {0 - 9, 1}
SignalTexts == {<<>>, PreconditionText, NotFoundText(<<"getacl">>)}
GenericText == <<"Failure: ", "connection reset">>
ErrTexts ==
  { <<>>,
    GenericText,
    PreconditionText,
    NotFoundText(<<"getacl">>),
    NotFoundText(<<"rm">>),
    <<"CommandException: ", RESUMABLE_UPLOAD_ERROR>>,
    <<"You have ", "no configured", " credentials">> }
FaultResults ==
  {[rc |-> r, error |-> e] : r \in {k \in FaultCodes : k > 0}, e \in ErrTexts}
  \cup {[rc |-> r, error |-> e] : r \in {k \in FaultCodes : k < 0}, e \in SignalTexts}
  \cup {[rc |-> 2, error |-> GenericText]}
DebugHeaderNames == {"x-goog-generation", "x-goog-metageneration"}

\* what the environment decides about one run of a command
NoFault(x) == x.fault = <<>> /\ x.hide = {}
Inputs(left) ==
  {[fault |-> <<>>, hide |-> {}]}
  \cup
  (IF left > 0
   THEN {[fault |-> <<f>>, hide |-> {}] : f \in FaultResults}
        \cup {[fault |-> <<>>, hide |-> h] : h \in (SUBSET DebugHeaderNames) \ {{}}}
   ELSE {})

\* a run whose write the store applied while the client was told it failed
\* (the connection broke after the request was served)
LateFaults == {[rc |-> 1, error |-> GenericText, late |-> TRUE]}
IsLate(x) == x.fault # <<>> /\ "late" \in DOMAIN x.fault[1]
LateInputs(left) ==
  IF left > 0 THEN {[fault |-> <<f>>, hide |-> {}] : f \in LateFaults} ELSE {}

\* ------------------------------------------------------------- cros_build_lib
\* RunCommand: runs the command once; a non-zero exit status raises
\* RunCommandError unless error_code_ok is set, and the result is returned
\* otherwise.
RunCommandEnd(kwargs, r) ==
  r @@ [raised |-> r.res.returncode # 0 /\ ~kwargs.error_code_ok]
RunCommand(cmd, kwargs, direct, st, clock, x) ==
  RunCommandEnd(kwargs,
    IF IsLate(x)
    THEN [ToolRun(cmd, kwargs.input, st, clock, {}) EXCEPT
            !.res = Result(cmd, x.fault[1].rc, <<>>, x.fault[1].error)]
    ELSE IF x.fault # <<>>
    THEN [store |-> st, genClock |-> clock,
          res |-> Result(cmd, x.fault[1].rc, <<>>, x.fault[1].error)]
    ELSE IF direct
    THEN [store |-> st, genClock |-> clock, res |-> LocalRun(cmd)]
    ELSE ToolRun(cmd, kwargs.input, st, clock, x.hide))

\* ShouldRetryCommandCommon: only a RunCommandError of a command that ran is
\* a candidate for a retry.
ShouldRetryCommandCommon(e) == e.exc = RunCommandError

\* ------------------------------------------------------------- tracker files
TrackerChars(text) ==
  [i \in 1..Len(text) |-> IF text[i] \in {"/", "\\"} THEN "_" ELSE text[i]]
RECURSIVE LStripSlash(_)
LStripSlash(text) ==
  IF Len(text) >= 1 /\ text[1] = "/" THEN LStripSlash(Tail(text)) ELSE text
\* the first position of "/" after the scheme, or Len + 1
NetlocEnd(path) ==
  IF \E i \in 2..Len(path) : path[i] = "/"
  THEN CHOOSE i \in 2..Len(path) : path[i] = "/" /\ \A j \in 2..(i - 1) : path[j] # "/"
  ELSE Len(path) + 1
GetTrackerFilenames(dest_path) ==
  LET name ==
        IF StartsWith(dest_path, BASE_GS_URL)
        THEN TrackerChars(<<"resumable_upload__">>
               \o SubSeq(dest_path, 2, NetlocEnd(dest_path) - 1) \o <<"__">>
               \o LStripSlash(SubSeq(dest_path, NetlocEnd(dest_path), Len(dest_path)))
               \o <<".url">>)
        ELSE TrackerChars(<<"resumable_download__">> \o dest_path \o <<".etag">>)
  IN { <<"TRACKER_">> \o name }

\* ------------------------------------------------------------- GSContext
\* a dict: a function from its keys; extra_env is <<>> when the caller passed none
EmptyDict == [n \in {} |-> <<>>]
NoKwargs ==
  [input |-> <<>>, error_code_ok |-> FALSE, retries |-> <<>>, headers |-> <<>>,
   extra_env |-> <<>>]

ChildSignalledNever(result) == FALSE
ChildSignalledSilent(result) == result.returncode < 0 /\ result.error = <<>>

\* if e.result.returncode < 0: the child process received a signal
ChildSignalled(result) == result.returncode < 0

TypedErrorNone(error) == <<>>

TypedErrorNotFoundFirst(error) ==
  IF error # <<>>
     /\ (\/ Contains(error, "GSResponseError") /\ Contains(error, "code=NoSuchKey")
         \/ Contains(error, "InvalidUriError:")
         \/ Contains(error, "CommandException: No URIs matched")
         \/ Contains(error, "CommandException: One or more URIs matched no objects"))
  THEN <<GSNoSuchKey>>
  ELSE IF error # <<>> /\ Contains(error, "GSResponseError")
          /\ Contains(error, "code=PreconditionFailed")
  THEN <<GSContextPreconditionFailed>>
  ELSE <<>>

\* the typed exception _RetryFilter raises for this error text, if any
TypedError(error) ==
  IF error # <<>> /\ Contains(error, "GSResponseError")
     /\ Contains(error, "code=PreconditionFailed")
  THEN <<GSContextPreconditionFailed>>
  ELSE IF error # <<>> /\ Contains(error, "GSResponseError")
          /\ Contains(error, "code=NoSuchKey")
  THEN <<GSNoSuchKey>>
  ELSE IF error # <<>>
          /\ (\/ Contains(error, "InvalidUriError:")
              \/ Contains(error, "CommandException: No URIs matched")
              \/ Contains(error, "CommandException: One or more URIs matched no objects"))
  THEN <<GSNoSuchKey>>
  ELSE <<>>

ResumableUnlinkNone(error, cmd) == {}

\* the tracker files _RetryFilter removes for this error of this command
ResumableUnlink(error, cmd) ==
  IF error # <<>>
     /\ (\/ Contains(error, RESUMABLE_DOWNLOAD_ERROR)
         \/ Contains(error, RESUMABLE_UPLOAD_ERROR))
     /\ Contains(SubSeq(cmd, 1, Len(cmd) - 2), <<"cp">>)
  THEN GetTrackerFilenames(cmd[Len(cmd)])
  ELSE {}

\* _RetryFilter(e): ret is <<TRUE>> (retry), <<FALSE>> (do not retry), or <<>>
\* when the filter raises the typed exception in raise; unlink names the tracker
\* files it removes.
RetryFilter(e) ==
  LET error == e.result.error
      cmd == e.result.cmd
      quiet == [ret |-> <<>>, raise |-> <<>>, unlink |-> {}]
  IN
  IF ~ShouldRetryCommandCommon(e) THEN [quiet EXCEPT !.ret = <<FALSE>>]
  ELSE IF ChildSignalled(e.result) THEN [quiet EXCEPT !.ret = <<FALSE>>]
  ELSE IF TypedError(error) # <<>> THEN [quiet EXCEPT !.raise = TypedError(error)]
  ELSE [quiet EXCEPT !.ret = <<TRUE>>, !.unlink = ResumableUnlink(error, cmd)]

DoCommandRetriesOneMore(ctx, retries) ==
  IF retries = <<>> THEN ctx.retries + 1 ELSE retries[1] + 1

\* the retry budget DoCommand hands to GenericRetry
DoCommandRetries(ctx, retries) == IF retries = <<>> THEN ctx.retries ELSE retries[1]

RECURSIVE HeaderFlags(_)
HeaderFlags(headers) ==
  IF headers = <<>> THEN <<>>
  ELSE << <<"-h">>, Head(headers) >> \o HeaderFlags(Tail(headers))

DoCommandExtraEnvOverrides(ctx, extra_env) ==
  LET e == IF extra_env = <<>> THEN EmptyDict ELSE extra_env[1]
  IN [n \in (DOMAIN e) \cup {"BOTO_CONFIG"} |->
        IF n = "BOTO_CONFIG" THEN ctx.boto_file ELSE e[n]]

\* extra_env = kwargs.pop('extra_env', {}); extra_env.setdefault('BOTO_CONFIG', ...)
DoCommandExtraEnv(ctx, extra_env) ==
  LET e == IF extra_env = <<>> THEN EmptyDict ELSE extra_env[1]
  IN [n \in (DOMAIN e) \cup {"BOTO_CONFIG"} |->
        IF n \in DOMAIN e THEN e[n] ELSE ctx.boto_file]

\* DoCommand up to the point where it runs the command: the fully formed command,
\* the retry budget, the environment and the arguments passed on to RunCommand.
DoCommand(ctx, gsutil_cmd, kwargs) ==
  [cmd |-> <<ctx.gsutil_bin>> \o HeaderFlags(kwargs.headers) \o gsutil_cmd,
   retries |-> DoCommandRetries(ctx, kwargs.retries),
   kwargs |-> kwargs,
   extra_env |-> DoCommandExtraEnv(ctx, kwargs.extra_env),
   direct |-> FALSE]

\* a command run directly through RunCommand, with the extra_env the caller gave
Direct(cmd, kwargs) ==
  [cmd |-> cmd, retries |-> 0, kwargs |-> kwargs,
   extra_env |-> IF kwargs.extra_env = <<>> THEN EmptyDict ELSE kwargs.extra_env[1],
   direct |-> TRUE]

CopyHeadersTruthy(version) ==
  IF version # <<>> /\ version[1] # 0
  THEN << <<"x-goog-if-generation-match:">> \o IntToStr(version[1]) >>
  ELSE <<>>

CopyHeaders(version) ==
  IF version # <<>>
  THEN << <<"x-goog-if-generation-match:">> \o IntToStr(version[1]) >>
  ELSE <<>>

CopyKeepsRetries(ctx, src_path, dest_path, acl, version, kwargs) ==
  LET headers == CopyHeaders(version)
      acl2 == IF acl = <<>> THEN ctx.acl ELSE acl
      cmd == << <<"cp">> >>
             \o (IF acl2 # <<>> THEN << <<"-a">>, acl2[1] >> ELSE <<>>)
             \o << <<"--">>, src_path, dest_path >>
  IN DoCommand(ctx, cmd, IF headers # <<>> THEN [kwargs EXCEPT !.headers = headers] ELSE kwargs)

Copy(ctx, src_path, dest_path, acl, version, kwargs) ==
  LET headers == CopyHeaders(version)
      acl2 == IF acl = <<>> THEN ctx.acl ELSE acl
      cmd == << <<"cp">> >>
             \o (IF acl2 # <<>> THEN << <<"-a">>, acl2[1] >> ELSE <<>>)
             \o << <<"--">>, src_path, dest_path >>
      kw1 == IF headers # <<>> THEN [kwargs EXCEPT !.headers = headers] ELSE kwargs
      kw2 == IF ~(StartsWith(src_path, BASE_GS_URL) \/ StartsWith(dest_path, BASE_GS_URL))
                /\ kw1.retries = <<>>
             THEN [kw1 EXCEPT !.retries = <<0>>] ELSE kw1
  IN DoCommand(ctx, cmd, kw2)

\* os.path.basename: what follows the last "/"
RECURSIVE Basename(_)
Basename(path) ==
  IF path = <<>> \/ path[Len(path)] = "/" THEN <<>>
  ELSE Basename(SubSeq(path, 1, Len(path) - 1)) \o <<path[Len(path)]>>

CopyInto(ctx, local_path, remote_dir, filename, acl, version) ==
  LET f == IF filename # <<>> THEN filename[1] ELSE local_path
  IN Copy(ctx, local_path, remote_dir \o <<"/">> \o Basename(f), acl, version, NoKwargs)

CatThroughTool(ctx, path, kwargs) == DoCommand(ctx, << <<"cat">>, path >>, kwargs)

\* GSContext.Cat up to the point where it runs the command
Cat(ctx, path, kwargs) ==
  IF ~StartsWith(path, BASE_GS_URL)
  THEN Direct(<< <<"cat">>, path >>, [kwargs EXCEPT !.retries = <<>>, !.headers = <<>>])
  ELSE DoCommand(ctx, << <<"cat">>, path >>, kwargs)

\* GSContext.LS up to the point where it runs the command
LS(ctx, path, kwargs) ==
  IF ~StartsWith(path, BASE_GS_URL)
  THEN Direct(<< <<"ls">>, path >>, [kwargs EXCEPT !.retries = <<>>, !.headers = <<>>])
  ELSE DoCommand(ctx, << <<"ls">>, <<"--">>, path >>, kwargs)

SetACLAclDefaultFirst(ctx, acl) ==
  IF ctx.acl # <<>> /\ ctx.acl # << <<>> >> THEN ctx.acl ELSE acl

\* the acl SetACL uses; none when the caller gave none and the context has none
\* or an empty one (not self.acl)
SetACLAcl(ctx, acl) ==
  IF acl # <<>> THEN acl
  ELSE IF ctx.acl = <<>> \/ ctx.acl = << <<>> >> THEN <<>>
  ELSE ctx.acl
\* self.DoCommand(['setacl', acl, upload_url])
SetACLCall(ctx, upload_url, acl) ==
  DoCommand(ctx, << <<"setacl">>, SetACLAcl(ctx, acl)[1], upload_url >>, NoKwargs)

GetGenerationCallStrict(ctx, path) ==
  DoCommand(ctx, << <<"-d">>, <<"getacl">>, path >>, NoKwargs)

\* res = self.DoCommand(['-d', 'getacl', path], error_code_ok=True, ...)
GetGenerationCall(ctx, path) ==
  DoCommand(ctx, << <<"-d">>, <<"getacl">>, path >>, [NoKwargs EXCEPT !.error_code_ok = TRUE])

\* re.search(r'header: %s: (\d+)' % name, res.output)
HeaderMatches(output, name) ==
  { i \in 1..Len(output) :
      /\ i + 3 <= Len(output)
      /\ output[i] = "header: " /\ output[i + 1] = name /\ output[i + 2] = ": "
      /\ DigitRun(output, i + 3) # <<>> }
Header(res, name) ==
  IF res # <<>> /\ res[1].returncode = 0 /\ HeaderMatches(res[1].output, name) # {}
  THEN LET i == CHOOSE k \in HeaderMatches(res[1].output, name) :
                  \A j \in HeaderMatches(res[1].output, name) : k <= j
       IN StrToInt(DigitRun(res[1].output, i + 3))
  ELSE 0

\* What GetGeneration makes of the end of its DoCommand (done: status, res, exc):
\* the tuple it returns, or the exception that leaves it.
GetGeneration(done) ==
  IF done.status = "returned"
  THEN [status |-> "returned",
        value |-> <<Header(done.res, "x-goog-generation"),
                    Header(done.res, "x-goog-metageneration")>>,
        exc |-> ""]
  ELSE IF done.exc = GSNoSuchKey
  THEN [status |-> "raised", value |-> <<>>, exc |-> "NameError"]
  ELSE [status |-> "raised", value |-> <<>>, exc |-> done.exc]

\* ------------------------------------------------------------- GenericRetry
DEFAULT_SLEEP_TIME == 60

\* One pass of GenericRetry's loop after the functor raised: f is the handler's
\* answer, attemptIndex the 0-based index of the attempt that failed. The
\* error raised when the budget is used up is the one of the last attempt.
GenericRetry(f, attemptIndex, max_retry) ==
  IF f.raise # <<>> THEN [status |-> "raised", exc |-> f.raise[1]]
  ELSE IF f.ret = <<FALSE>> THEN [status |-> "raised", exc |-> RunCommandError]
  ELSE IF attemptIndex < max_retry THEN [status |-> "again", exc |-> ""]
  ELSE [status |-> "raised", exc |-> RunCommandError]

RetrySleepFlat(attemptIndex, sleep) ==
  IF attemptIndex # 0 /\ sleep # 0 THEN <<sleep>> ELSE <<>>

\* the sleep GenericRetry takes before the attempt of that index
RetrySleep(attemptIndex, sleep) ==
  IF attemptIndex # 0 /\ sleep # 0 THEN <<sleep * attemptIndex>> ELSE <<>>

\* ------------------------------------------------------------- state
VARIABLES
  ctx,          \* the GSContext the clients use: retries, acl, dry_run, sleep_time
  pc,           \* per client: the place in the operation it is running, or "idle"
  op,           \* per client: the operation it called last and its arguments
  call,         \* per client: the command DoCommand (or RunCommand) is running
  log,          \* per client: the attempts of that command so far (see NoLog)
  snap,         \* per client: the store and the environment's choice at the last attempt
  slept,        \* per client: the sleeps taken during that command
  loc,          \* per client: the locals of the operation
  result,       \* per client: how its last operation ended
  faultsLeft,   \* how many more runs of the tool the environment may disturb
  trackers,     \* the tracker files in the gsutil tracker directory
  calls,        \* per client: operations started
  returns,      \* per client: the values its calls returned, in order
  accepted,     \* the writes the store accepted
  removes,      \* removals of the counter by other parties
  interf,       \* per client: changes of the counter by others during its call
  rejected,     \* per client: conditional writes refused during its call
  DEFAULT_GSUTIL_BIN,  \* the class attribute: <<>> (None) or the cached path
  resolved,     \* the paths assigned to DEFAULT_GSUTIL_BIN so far, in order
  environ,      \* os.environ.get('BOTO_CONFIG'): <<>> or the path
  self,         \* per thread: the GSContext it constructed last
  callerEnv,    \* a dict callers own and pass as extra_env more than once
  files         \* the credential files that exist, with their sizes

\* the state of the process the clients are constructed in
cfgVars == <<DEFAULT_GSUTIL_BIN, resolved, environ, self, callerEnv, files>>

vars == <<store, genClock, ctx, pc, op, call, log, snap, slept, loc, result,
          faultsLeft, trackers, calls, returns, accepted, removes,
          interf, rejected, DEFAULT_GSUTIL_BIN, resolved, environ, self, callerEnv,
          files>>

\* tries: the runs of the command so far; last: the result of the latest run;
\* generic: every run so far failed with a Generic failure
NoLog == [tries |-> 0, last |-> <<>>, generic |-> TRUE]
NoCall == [cmd |-> <<>>, retries |-> 0, kwargs |-> NoKwargs, extra_env |-> EmptyDict,
           direct |-> FALSE]
NoLoc == [generation |-> 0, value |-> 0, iter |-> 0, caught |-> "", found |-> FALSE,
          i |-> 0, latest_url |-> <<>>, copied |-> FALSE, gsutil_bin |-> <<>>,
          boto_file |-> <<>>, default_boto |-> FALSE, removals |-> 0, body |-> ""]
NoResult == [status |-> "none", value |-> <<>>, exc |-> "", res |-> <<>>]
NoOp == [name |-> "", src |-> <<>>, dst |-> <<>>, filename |-> <<>>, version |-> <<>>,
         ignore_missing |-> FALSE, strict |-> FALSE, retries |-> <<>>, acl |-> <<>>,
         cache_dir |-> <<>>, gsutil_bin |-> <<>>, boto_file |-> <<>>, extra_env |-> <<>>,
         reused |-> FALSE, init_boto |-> FALSE]
NoSnap == [fault |-> <<>>, hide |-> {}, before |-> <<>>, ran |-> FALSE]
Returned(v, res) == [status |-> "returned", value |-> v, exc |-> "", res |-> res]
Raised(exc, res) == [status |-> "raised", value |-> <<>>, exc |-> exc, res |-> res]

DEFAULT_BOTO_FILE == <<"~", "/", ".boto">>
ExplicitBoto == <<"/", "explicit.boto">>
EnvBoto == <<"/", "env.boto">>
OtherBoto == <<"/", "other.boto">>

\* the credential files a process may find: each path with the size of the
\* file there, a path without a file left out
BotoFiles == {DEFAULT_BOTO_FILE, ExplicitBoto, EnvBoto}
FileSystems == UNION {[D -> {0, 1}] : D \in SUBSET BotoFiles}
AllFiles == [p \in BotoFiles |-> 1]
NoFiles == [p \in {} |-> 1]
IsFile(fs, path) == path \in DOMAIN fs
WriteFile(fs, path, size) ==
  [p \in (DOMAIN fs) \cup {path} |-> IF p = path THEN size ELSE fs[p]]
RemoveFile(fs, path) == [p \in (DOMAIN fs) \ {path} |-> fs[p]]

Contexts ==
  {[gsutil_bin |-> GsutilBin, boto_file |-> DEFAULT_BOTO_FILE, retries |-> r,
    acl |-> <<>>, dry_run |-> FALSE, sleep_time |-> DEFAULT_SLEEP_TIME] :
     r \in 0..MaxRetries}

\* the bucket at the start, without the counter object and with an old one
StoreWithout ==
  [p \in {LatestSrc} |-> [gen |-> GenBase, metagen |-> 1, content |-> <<"data">>]]
StoreWith ==
  [p \in {LatestSrc, CounterPath} |->
     IF p = CounterPath THEN [gen |-> GenBase - 1, metagen |-> 2, content |-> <<"5">>]
     ELSE StoreWithout[p]]

OtherTracker == <<"TRACKER_", "resumable_upload__", "b", "__", "other", ".url">>

\* the tracker files in the tracker directory at the start: those of the
\* destinations the operations use, and one of another transfer
TrackerDir ==
  UNION {GetTrackerFilenames(d) :
           d \in {CounterPath, LatestPath, <<"/", "tmp", "/", "g">>,
                  RemoteDir \o <<"/", "f">>, RemoteDir \o <<"/", "name">>,
                  DestSlash, DestUnder}}
  \cup {OtherTracker}

DEFAULT_RETRIES == 10
NoSelf ==
  [gsutil_bin |-> <<>>, boto_file |-> <<>>, retries |-> DEFAULT_RETRIES, acl |-> <<>>,
   dry_run |-> FALSE, sleep_time |-> DEFAULT_SLEEP_TIME, constructed |-> FALSE]

InitWithFiles(stores, contexts, environs, filesystems) ==
  /\ files \in filesystems
  /\ DEFAULT_GSUTIL_BIN = <<>>
  /\ resolved = <<>>
  /\ environ \in environs
  /\ self = [c \in Clients |-> NoSelf]
  /\ callerEnv = EmptyDict
  /\ store \in stores
  /\ genClock = GenBase
  /\ ctx \in contexts
  /\ pc = [c \in Clients |-> "idle"]
  /\ op = [c \in Clients |-> NoOp]
  /\ call = [c \in Clients |-> NoCall]
  /\ log = [c \in Clients |-> NoLog]
  /\ snap = [c \in Clients |-> NoSnap]
  /\ slept = [c \in Clients |-> <<>>]
  /\ loc = [c \in Clients |-> NoLoc]
  /\ result = [c \in Clients |-> NoResult]
  /\ trackers = TrackerDir
  /\ calls = [c \in Clients |-> 0]
  /\ returns = [c \in Clients |-> <<>>]
  /\ accepted = {}
  /\ removes = 0
  /\ interf = [c \in Clients |-> 0]
  /\ rejected = [c \in Clients |-> 0]

InitWithEnviron(stores, contexts, environs) ==
  InitWithFiles(stores, contexts, environs, {AllFiles})

InitWith(stores, contexts) == InitWithEnviron(stores, contexts, {<<>>})

InitCommon(stores) == InitWith(stores, Contexts)

\* ------------------------------------------------------------- one attempt
\* One attempt of the command client c is running, under the environment's
\* choice x: DoCommand's dry-run branch, RunCommand, and on a failure the retry
\* filter and GenericRetry's decision.
AttemptRetry(k, tries, ran, f) ==
  [ran EXCEPT !.status = GenericRetry(f, tries, k.retries).status,
              !.exc = GenericRetry(f, tries, k.retries).exc,
              !.unlink = f.unlink]
AttemptRan(k, tries, run, ran) ==
  IF ~run.raised THEN ran
  ELSE IF k.direct THEN [ran EXCEPT !.status = "raised", !.exc = RunCommandError]
  ELSE AttemptRetry(k, tries, ran, RetryFilter([exc |-> RunCommandError, result |-> run.res]))
AttemptRun(k, tries, run) ==
  AttemptRan(k, tries, run,
    [store |-> run.store, genClock |-> run.genClock, invoked |-> TRUE,
     res |-> <<run.res>>, status |-> "returned", exc |-> "", unlink |-> {}])
Attempt(c, x) ==
  IF ctx.dry_run /\ ~call[c].direct
  THEN [store |-> store, genClock |-> genClock, invoked |-> FALSE,
        res |-> <<>>, status |-> "returned", exc |-> "", unlink |-> {}]
  ELSE AttemptRun(call[c], log[c].tries,
         RunCommand(call[c].cmd, call[c].kwargs, call[c].direct, store, genClock, x))

\* what the environment may decide about the run of c's command: the headers
\* of the answer exist only in the output of a command run with -d
RunInputs(c) == {x \in Inputs(faultsLeft) : x.hide = {} \/ ToolDebug(call[c].cmd)}

\* the accepted write of a run, if it made one
Writes(c, a) ==
  IF a.genClock # genClock
  THEN LET dst == call[c].cmd[Len(call[c].cmd)]
       IN {[by |-> c, path |-> dst, expected |-> IfGenerationMatch(call[c].cmd),
            before |-> CurGen(store, dst), after |-> a.genClock,
            content |-> a.store[dst].content]}
  ELSE {}

CounterChanged(st) ==
  HasObject(st, CounterPath) # HasObject(store, CounterPath)
  \/ CurGen(st, CounterPath) # CurGen(store, CounterPath)

\* What every attempt of client c changes, whatever operation it belongs to:
\* the store, the attempt log, the sleeps, the tracker files.
Commit(c, x, a) ==
  /\ store' = a.store
  /\ genClock' = a.genClock
  /\ faultsLeft' = IF NoFault(x) THEN faultsLeft ELSE faultsLeft - 1
  /\ trackers' = trackers \ a.unlink
  /\ snap' = [snap EXCEPT ![c] = [fault |-> x.fault, hide |-> x.hide, before |-> store,
                                   ran |-> a.invoked]]
  /\ accepted' = accepted \cup Writes(c, a)
  /\ interf' = [d \in Clients |->
                  IF d # c /\ pc[d] # "idle" /\ CounterChanged(a.store)
                  THEN interf[d] + 1 ELSE interf[d]]
  /\ UNCHANGED <<ctx, removes, calls, op, cfgVars>>

\* the attempt log of c after the attempt a
Logged(c, a) ==
  IF a.invoked
  THEN [tries |-> log[c].tries + 1, last |-> a.res,
        generic |-> log[c].generic /\ FailureClass(a.res[1]) = "Generic"]
  ELSE log[c]

\* The command of c ended its attempt with a: another attempt of it, or the
\* operation goes on at p running k (p = "idle": the operation is over).
Goto(c, a, p, k, l, r) ==
  IF a.status = "again"
  THEN /\ log' = [log EXCEPT ![c] = Logged(c, a)]
       /\ slept' = [slept EXCEPT ![c] =
                      slept[c] \o RetrySleep(log[c].tries + 1, ctx.sleep_time)]
       /\ UNCHANGED <<pc, call, loc, result>>
  ELSE /\ pc' = [pc EXCEPT ![c] = p]
       /\ loc' = [loc EXCEPT ![c] = l]
       /\ result' = [result EXCEPT ![c] = r]
       /\ IF p = "idle"
          THEN /\ log' = [log EXCEPT ![c] = Logged(c, a)]
               /\ UNCHANGED <<call, slept>>
          ELSE /\ log' = [log EXCEPT ![c] = NoLog]
               /\ call' = [call EXCEPT ![c] = k]
               /\ slept' = [slept EXCEPT ![c] = <<>>]

RECURSIVE SumOver(_, _)
SumOver(f, S) ==
  IF S = {} THEN 0 ELSE LET e == CHOOSE e \in S : TRUE IN f[e] + SumOver(f, S \ {e})
TotalCalls == SumOver(calls, Clients)

\* a client starts operation o at p with command k, if fewer than limit
\* operations were started so far
Start(c, limit, o, p, k) ==
  /\ pc[c] = "idle"
  /\ TotalCalls < limit
  /\ calls' = [calls EXCEPT ![c] = calls[c] + 1]
  /\ pc' = [pc EXCEPT ![c] = p]
  /\ op' = [op EXCEPT ![c] = o]
  /\ call' = [call EXCEPT ![c] = k]
  /\ log' = [log EXCEPT ![c] = NoLog]
  /\ slept' = [slept EXCEPT ![c] = <<>>]
  /\ snap' = [snap EXCEPT ![c] = NoSnap]
  /\ loc' = [loc EXCEPT ![c] = NoLoc]
  /\ result' = [result EXCEPT ![c] = NoResult]
  /\ interf' = [interf EXCEPT ![c] = 0]
  /\ rejected' = [rejected EXCEPT ![c] = 0]
  /\ UNCHANGED <<store, genClock, ctx, faultsLeft, trackers, returns, accepted,
                 removes, cfgVars>>

\* ------------------------------------------------------------- GSCounter
IsInt(text) == Len(text) >= 1 /\ \A i \in 1..Len(text) : IsDigit(text[i])

GetRaisesNotFound(done) ==
  IF done.status = "returned"
  THEN IF done.res = <<>> THEN [status |-> "raised", value |-> 0, exc |-> "AttributeError"]
       ELSE IF ~IsInt(done.res[1].output)
       THEN [status |-> "raised", value |-> 0, exc |-> "ValueError"]
       ELSE [status |-> "returned", value |-> StrToInt(done.res[1].output), exc |-> ""]
  ELSE [status |-> "raised", value |-> 0, exc |-> done.exc]

\* GSCounter.Get on the end of its Cat
Get(done) ==
  IF done.status = "returned"
  THEN IF done.res = <<>> THEN [status |-> "raised", value |-> 0, exc |-> "AttributeError"]
       ELSE IF ~IsInt(done.res[1].output)
       THEN [status |-> "raised", value |-> 0, exc |-> "ValueError"]
       ELSE [status |-> "returned", value |-> StrToInt(done.res[1].output), exc |-> ""]
  ELSE IF done.exc = GSNoSuchKey THEN [status |-> "returned", value |-> 0, exc |-> ""]
  ELSE [status |-> "raised", value |-> 0, exc |-> done.exc]

IncrementValueNoAdd(generation, got) == IF generation = 0 THEN 1 ELSE got

\* value = 1 if generation == 0 else self.Get() + 1
IncrementValue(generation, got) == IF generation = 0 THEN 1 ELSE got + 1

IncrementCopyUnconditional(c, value, generation) ==
  Copy(ctx, Stdin, CounterPath, <<>>, <<>>, [NoKwargs EXCEPT !.input = IntToStr(value)])

\* self.ctx.Copy('-', self.path, input=str(value), version=generation)
IncrementCopy(c, value, generation) ==
  Copy(ctx, Stdin, CounterPath, <<>>, <<generation>>,
       [NoKwargs EXCEPT !.input = IntToStr(value)])

IncrementRetryGenerationStale(generation, new_generation) == generation

\* the generation the next attempt of the loop uses after a refused write
IncrementRetryGeneration(generation, new_generation) == new_generation

IncrementRaisesNever(generation, new_generation) == FALSE

\* if new_generation == generation: raise
IncrementRaises(generation, new_generation) == new_generation = generation

IncrementLoopGoesOnOneMore(iter, retries) == iter < retries + 2

\* whether the loop of Increment has another iteration after iteration iter
IncrementLoopGoesOn(iter, retries) == iter < retries + 1

\* the start of an iteration of the loop with this generation
IncrementTry(c, a, l) ==
  IF l.generation = 0
  THEN Goto(c, a, "Increment_102",
            IncrementCopy(c, IncrementValue(0, 0), 0),
            [l EXCEPT !.value = IncrementValue(0, 0)], NoResult)
  ELSE Goto(c, a, "Increment_101", Cat(ctx, CounterPath, NoKwargs), l, NoResult)

StartIncrement(c) ==
  Start(c, MaxCalls, [NoOp EXCEPT !.name = "Increment"], "Increment_98",
        GetGenerationCall(ctx, CounterPath))

\* generation, _ = self.ctx.GetGeneration(self.path)
Increment_98(c) ==
  /\ pc[c] = "Increment_98"
  /\ \E x \in RunInputs(c) :
       \E a \in {Attempt(c, x)} :
       LET g == GetGeneration(a)
       IN /\ Commit(c, x, a)
          /\ UNCHANGED <<rejected, returns>>
          /\ IF g.status = "raised"
             THEN Goto(c, a, "idle", NoCall, loc[c], Raised(g.exc, a.res))
             ELSE IncrementTry(c, a, [loc[c] EXCEPT !.generation = g.value[1], !.iter = 1])

\* self.Get() of the loop body
Increment_101(c) ==
  /\ pc[c] = "Increment_101"
  /\ \E x \in RunInputs(c) :
       \E a \in {Attempt(c, x)} :
       LET g == Get(a)
           v == IncrementValue(loc[c].generation, g.value)
       IN /\ Commit(c, x, a)
          /\ UNCHANGED <<rejected, returns>>
          /\ IF g.status = "raised"
             THEN Goto(c, a, "idle", NoCall, loc[c], Raised(g.exc, a.res))
             ELSE Goto(c, a, "Increment_102", IncrementCopy(c, v, loc[c].generation),
                       [loc[c] EXCEPT !.value = v], NoResult)

\* the conditional Copy of the loop body, and return value, with the runs of
\* its command decided among inputs
Increment_102With(c, inputs) ==
  /\ pc[c] = "Increment_102"
  /\ \E x \in inputs :
       \E a \in {Attempt(c, x)} :
          /\ Commit(c, x, a)
          /\ IF a.status = "returned"
             THEN /\ Goto(c, a, "idle", NoCall, loc[c], Returned(<<loc[c].value>>, a.res))
                  /\ returns' = [returns EXCEPT ![c] = Append(returns[c], loc[c].value)]
                  /\ UNCHANGED rejected
             ELSE IF a.status = "raised" /\ a.exc \in {GSContextPreconditionFailed, GSNoSuchKey}
             THEN /\ Goto(c, a, "Increment_109", GetGenerationCall(ctx, CounterPath),
                          [loc[c] EXCEPT !.caught = a.exc], NoResult)
                  /\ rejected' = [rejected EXCEPT ![c] = rejected[c] + 1]
                  /\ UNCHANGED returns
             ELSE /\ Goto(c, a, "idle", NoCall, loc[c], Raised(a.exc, a.res))
                  /\ UNCHANGED <<rejected, returns>>

Increment_102(c) == Increment_102With(c, RunInputs(c))

\* the same statement where a run may also be applied and reported failed
Increment_102Late(c) == Increment_102With(c, RunInputs(c) \cup LateInputs(faultsLeft))

\* the except clause: new_generation, _ = self.ctx.GetGeneration(self.path)
Increment_109(c) ==
  /\ pc[c] = "Increment_109"
  /\ \E x \in RunInputs(c) :
       \E a \in {Attempt(c, x)} :
       LET g == GetGeneration(a)
           l == [loc[c] EXCEPT
                   !.generation = IncrementRetryGeneration(loc[c].generation, g.value[1]),
                   !.iter = loc[c].iter + 1]
       IN /\ Commit(c, x, a)
          /\ UNCHANGED <<rejected, returns>>
          /\ IF g.status = "raised"
             THEN Goto(c, a, "idle", NoCall, loc[c], Raised(g.exc, a.res))
             ELSE IF IncrementRaises(loc[c].generation, g.value[1])
             THEN Goto(c, a, "idle", NoCall, loc[c], Raised(loc[c].caught, a.res))
             ELSE IF IncrementLoopGoesOn(loc[c].iter, ctx.retries)
             THEN IncrementTry(c, a, l)
             ELSE Goto(c, a, "idle", NoCall, loc[c], Returned(<<>>, a.res))

\* ------------------------------------------------------------- other parties
\* somebody else removes the counter object
RemoveCounter ==
  /\ removes < MaxRemoves
  /\ HasObject(store, CounterPath)
  /\ store' = DelObject(store, CounterPath)
  /\ removes' = removes + 1
  /\ interf' = [d \in Clients |-> IF pc[d] # "idle" THEN interf[d] + 1 ELSE interf[d]]
  /\ UNCHANGED <<genClock, ctx, pc, op, call, log, snap, slept, loc, result, faultsLeft,
                 trackers, calls, returns, accepted, rejected, cfgVars>>

\* ------------------------------------------------------------- Exists
ExistsAnyError(done) ==
  IF done.status = "returned" THEN [status |-> "returned", value |-> TRUE, exc |-> ""]
  ELSE [status |-> "returned", value |-> FALSE, exc |-> ""]

ExistsCall(path) == DoCommand(ctx, << <<"getacl">>, path >>, NoKwargs)

\* GSContext.Exists on the end of its DoCommand
Exists(done) ==
  IF done.status = "returned" THEN [status |-> "returned", value |-> TRUE, exc |-> ""]
  ELSE IF done.exc = GSNoSuchKey THEN [status |-> "returned", value |-> FALSE, exc |-> ""]
  ELSE [status |-> "raised", value |-> FALSE, exc |-> done.exc]

\* ------------------------------------------------------------- UpdateLatestFilesForBot
\* the LATEST files of the versions, oldest first, and the upload ACL
LatestUrls == <<LatestSrc, LatestPath>>
UploadACL == <<"public-read">>

\* copy_ctx.Copy(latest_url, url, version=0, acl=acl)
UpdateCopy(latest_url, url) == Copy(ctx, latest_url, url, <<UploadACL>>, <<0>>, NoKwargs)

StartUpdate(c) ==
  Start(c, MaxCalls, [NoOp EXCEPT !.name = "UpdateLatestFilesForBot"], "Update_169",
        ExistsCall(LatestUrls[1]))

\* the end of the loop body for LatestUrls[l.i], found or not
UpdateNext(c, a, l, found) ==
  LET l2 == [l EXCEPT !.found = found,
                      !.latest_url = IF found THEN <<LatestUrls[l.i]>> ELSE l.latest_url,
                      !.i = l.i + 1]
  IN IF l.i < Len(LatestUrls)
     THEN Goto(c, a, "Update_169", ExistsCall(LatestUrls[l2.i]), l2, NoResult)
     ELSE Goto(c, a, "idle", NoCall, l2, Returned(<<>>, a.res))

\* found = gs_ctx.Exists(url, print_cmd=False)
Update_169(c) ==
  /\ pc[c] = "Update_169"
  /\ \E x \in RunInputs(c) :
       \E a \in {Attempt(c, x)} :
       LET e == Exists(a)
           l == IF loc[c].i = 0 THEN [loc[c] EXCEPT !.i = 1] ELSE loc[c]
       IN /\ Commit(c, x, a)
          /\ UNCHANGED <<rejected, returns>>
          /\ IF e.status = "raised"
             THEN Goto(c, a, "idle", NoCall, l, Raised(e.exc, a.res))
             ELSE IF ~e.value /\ l.latest_url # <<>>
             THEN Goto(c, a, "Update_172", UpdateCopy(l.latest_url[1], LatestUrls[l.i]),
                       [l EXCEPT !.found = FALSE], NoResult)
             ELSE UpdateNext(c, a, l, e.value)

\* the Copy of the try block; GSContextPreconditionFailed means found
Update_172(c) ==
  /\ pc[c] = "Update_172"
  /\ \E x \in RunInputs(c) :
       \E a \in {Attempt(c, x)} :
       LET l == [loc[c] EXCEPT !.copied = TRUE,
                               !.caught = IF a.status = "raised" THEN a.exc ELSE ""]
       IN /\ Commit(c, x, a)
          /\ UNCHANGED <<rejected, returns>>
          /\ IF a.status = "returned" THEN UpdateNext(c, a, l, FALSE)
             ELSE IF a.status = "raised" /\ a.exc = GSContextPreconditionFailed
             THEN UpdateNext(c, a, l, TRUE)
             ELSE Goto(c, a, "idle", NoCall, l, Raised(a.exc, a.res))

InitLatest ==
  /\ InitCommon({StoreWithout})
  /\ faultsLeft = 0

NextLatest ==
  \/ \E c \in Clients : StartUpdate(c)
  \/ \E c \in Clients : Update_169(c)
  \/ \E c \in Clients : Update_172(c)

SpecLatest == InitLatest /\ [][NextLatest]_vars

\* ------------------------------------------------------------- single operations under faults
LocalDest == <<"/", "tmp", "/", "g">>
VersionArgs == {<<>>, <<0>>, <<GenBase - 1>>, <<GenBase + 2>>}
FilenameArgs == {<<>>, <<<<"sub", "/", "name">>>>}

StartCopy(c) ==
  \E src \in {LocalFile}, dst \in {CounterPath, LocalDest}, version \in VersionArgs :
    Start(c, MaxOps, [NoOp EXCEPT !.name = "Copy", !.src = src, !.dst = dst, !.version = version],
          "Copy_457", Copy(ctx, src, dst, <<>>, version, NoKwargs))

StartCopyInto(c) ==
  \E filename \in FilenameArgs, version \in VersionArgs :
    Start(c, MaxOps, [NoOp EXCEPT !.name = "CopyInto", !.src = LocalFile, !.dst = RemoteDir,
                          !.filename = filename, !.version = version],
          "Copy_457", CopyInto(ctx, LocalFile, RemoteDir, filename, <<>>, version))

\* return self.DoCommand(cmd, **kwargs)
Copy_457(c) ==
  /\ pc[c] = "Copy_457"
  /\ \E x \in RunInputs(c) :
       \E a \in {Attempt(c, x)} :
          /\ Commit(c, x, a)
          /\ UNCHANGED <<rejected, returns>>
          /\ IF a.status = "returned"
             THEN Goto(c, a, "idle", NoCall, loc[c], Returned(a.res, a.res))
             ELSE Goto(c, a, "idle", NoCall, loc[c], Raised(a.exc, a.res))

StartGetGeneration(c) ==
  Start(c, MaxOps, [NoOp EXCEPT !.name = "GetGeneration", !.dst = CounterPath],
        "GetGeneration_527", GetGenerationCall(ctx, CounterPath))

\* res = self.DoCommand(['-d', 'getacl', path], ...) and the return
GetGeneration_527(c) ==
  /\ pc[c] = "GetGeneration_527"
  /\ \E x \in RunInputs(c) :
       \E a \in {Attempt(c, x)} :
       LET g == GetGeneration(a)
       IN /\ Commit(c, x, a)
          /\ UNCHANGED <<rejected, returns>>
          /\ IF g.status = "returned"
             THEN Goto(c, a, "idle", NoCall, loc[c], Returned(g.value, a.res))
             ELSE Goto(c, a, "idle", NoCall, loc[c], Raised(g.exc, a.res))

InitOps ==
  /\ InitCommon({StoreWithout, StoreWith})
  /\ faultsLeft = MaxFaults

NextOps ==
  \/ \E c \in OpsClients : StartCopy(c)
  \/ \E c \in OpsClients : StartCopyInto(c)
  \/ \E c \in OpsClients : Copy_457(c)
  \/ \E c \in OpsClients : StartGetGeneration(c)
  \/ \E c \in OpsClients : GetGeneration_527(c)
  \/ RemoveCounter

SpecOps == InitOps /\ [][NextOps]_vars

\* ------------------------------------------------------------- uploads to neighbouring names
\* the destinations whose transfers have tracker files in the directory
TrackedDests == {DestSlash, DestUnder, CounterPath}

StartCopyTracked(c) ==
  \E dst \in TrackedDests :
    Start(c, MaxOps, [NoOp EXCEPT !.name = "Copy", !.src = LocalFile, !.dst = dst],
          "Copy_457", Copy(ctx, LocalFile, dst, <<>>, <<>>, NoKwargs))

NextTrackers ==
  \/ \E c \in OpsClients : StartCopyTracked(c)
  \/ \E c \in OpsClients : Copy_457(c)

SpecTrackers == InitOps /\ [][NextTrackers]_vars

\* ------------------------------------------------------------- Remove, Exists, CopyInto under faults
\* self.DoCommand(['rm', path])
RemoveCall(path) == DoCommand(ctx, << <<"rm">>, path >>, NoKwargs)

RemoveSwallowsAll(done, ignore_missing) ==
  IF done.status = "returned" \/ ignore_missing
  THEN [status |-> "returned", value |-> <<>>, exc |-> ""]
  ELSE [status |-> "raised", value |-> <<>>, exc |-> done.exc]

\* GSContext.Remove on the end of its DoCommand
Remove(done, ignore_missing) ==
  IF done.status = "returned" THEN [status |-> "returned", value |-> <<>>, exc |-> ""]
  ELSE IF done.exc = GSNoSuchKey /\ ignore_missing
  THEN [status |-> "returned", value |-> <<>>, exc |-> ""]
  ELSE [status |-> "raised", value |-> <<>>, exc |-> done.exc]

StartRemove(c) ==
  \E ignore_missing \in BOOLEAN :
    Start(c, MaxOps, [NoOp EXCEPT !.name = "Remove", !.dst = CounterPath,
                                  !.ignore_missing = ignore_missing],
          "Remove_507", RemoveCall(CounterPath))

Remove_507(c) ==
  /\ pc[c] = "Remove_507"
  /\ \E x \in RunInputs(c) :
       \E a \in {Attempt(c, x)} :
       LET r == Remove(a, op[c].ignore_missing)
       IN /\ Commit(c, x, a)
          /\ UNCHANGED <<rejected, returns>>
          /\ IF r.status = "returned"
             THEN Goto(c, a, "idle", NoCall, loc[c], Returned(<<>>, a.res))
             ELSE Goto(c, a, "idle", NoCall, loc[c], Raised(r.exc, a.res))

StartExists(c) ==
  Start(c, MaxOps, [NoOp EXCEPT !.name = "Exists", !.dst = CounterPath],
        "Exists_494", ExistsCall(CounterPath))

Exists_494(c) ==
  /\ pc[c] = "Exists_494"
  /\ \E x \in RunInputs(c) :
       \E a \in {Attempt(c, x)} :
       LET e == Exists(a)
       IN /\ Commit(c, x, a)
          /\ UNCHANGED <<rejected, returns>>
          /\ IF e.status = "returned"
             THEN Goto(c, a, "idle", NoCall, loc[c], Returned(<<e.value>>, a.res))
             ELSE Goto(c, a, "idle", NoCall, loc[c], Raised(e.exc, a.res))

\* file names with one segment, with several, and with a trailing separator
FilenameCases ==
  {<<>>, << <<"name">> >>, << <<"sub", "/", "name">> >>, << <<"sub", "/">> >>,
   << <<"/", "a", "/", "b", "/", "name">> >>}

StartCopyIntoNamed(c) ==
  \E filename \in FilenameCases :
    Start(c, MaxOps, [NoOp EXCEPT !.name = "CopyInto", !.src = LocalFile, !.dst = RemoteDir,
                                  !.filename = filename],
          "Copy_457", CopyInto(ctx, LocalFile, RemoteDir, filename, <<>>, <<>>))

InitObjects ==
  /\ InitCommon({StoreWithout, StoreWith})
  /\ faultsLeft = MaxFaults

NextObjects ==
  \/ \E c \in OpsClients : StartRemove(c)
  \/ \E c \in OpsClients : Remove_507(c)
  \/ \E c \in OpsClients : StartExists(c)
  \/ \E c \in OpsClients : Exists_494(c)
  \/ \E c \in OpsClients : StartCopyIntoNamed(c)
  \/ \E c \in OpsClients : Copy_457(c)

SpecObjects == InitObjects /\ [][NextObjects]_vars

\* ------------------------------------------------------------- the operations of a dry-run client
\* the retries argument a caller may pass: none, 0, or more than the client's
RetriesArgs == {<<>>, <<0>>, <<MaxRetries + 1>>}

StartCat(c) ==
  \E path \in {CounterPath, LocalFile}, retries \in RetriesArgs :
    Start(c, MaxOps, [NoOp EXCEPT !.name = "Cat", !.src = path, !.retries = retries],
          "Cat_259", Cat(ctx, path, [NoKwargs EXCEPT !.retries = retries]))

StartLS(c) ==
  \E path \in {RemoteDir, LocalFile} :
    Start(c, MaxOps, [NoOp EXCEPT !.name = "LS", !.src = path], "LS_467",
          LS(ctx, path, NoKwargs))

\* return of the result of RunCommand or DoCommand by Cat and LS
Return_Result(c, p) ==
  /\ pc[c] = p
  /\ \E x \in RunInputs(c) :
       \E a \in {Attempt(c, x)} :
          /\ Commit(c, x, a)
          /\ UNCHANGED <<rejected, returns>>
          /\ IF a.status = "returned"
             THEN Goto(c, a, "idle", NoCall, loc[c], Returned(a.res, a.res))
             ELSE Goto(c, a, "idle", NoCall, loc[c], Raised(a.exc, a.res))
Cat_259(c) == Return_Result(c, "Cat_259")
LS_467(c) == Return_Result(c, "LS_467")

\* SetACL: without an acl of the caller or of the context it raises before
\* any command; otherwise it runs setacl
StartSetACL(c) ==
  \E acl \in {<<>>, <<UploadACL>>} :
    IF SetACLAcl(ctx, acl) = <<>>
    THEN /\ Start(c, MaxOps, [NoOp EXCEPT !.name = "SetACL", !.dst = CounterPath,
                                          !.acl = acl],
                  "SetACL_478", NoCall)
    ELSE /\ Start(c, MaxOps, [NoOp EXCEPT !.name = "SetACL", !.dst = CounterPath,
                                          !.acl = acl],
                  "SetACL_482", SetACLCall(ctx, CounterPath, acl))

SetACL_478(c) ==
  /\ pc[c] = "SetACL_478"
  /\ pc' = [pc EXCEPT ![c] = "idle"]
  /\ result' = [result EXCEPT ![c] = Raised(GSContextException, <<>>)]
  /\ UNCHANGED <<store, genClock, ctx, op, call, log, snap, slept, loc, faultsLeft,
                 trackers, calls, returns, accepted, removes, interf, rejected, cfgVars>>

SetACL_482(c) ==
  /\ pc[c] = "SetACL_482"
  /\ \E x \in RunInputs(c) :
       \E a \in {Attempt(c, x)} :
          /\ Commit(c, x, a)
          /\ UNCHANGED <<rejected, returns>>
          /\ IF a.status = "returned"
             THEN Goto(c, a, "idle", NoCall, loc[c], Returned(<<>>, a.res))
             ELSE Goto(c, a, "idle", NoCall, loc[c], Raised(a.exc, a.res))

\* GSCounter.Get as an operation of its own
StartGet(c) ==
  Start(c, MaxOps, [NoOp EXCEPT !.name = "Get", !.dst = CounterPath], "Get_93",
        Cat(ctx, CounterPath, NoKwargs))

Get_93(c) ==
  /\ pc[c] = "Get_93"
  /\ \E x \in RunInputs(c) :
       \E a \in {Attempt(c, x)} :
       LET g == Get(a)
       IN /\ Commit(c, x, a)
          /\ UNCHANGED <<rejected, returns>>
          /\ IF g.status = "returned"
             THEN Goto(c, a, "idle", NoCall, loc[c], Returned(<<g.value>>, a.res))
             ELSE Goto(c, a, "idle", NoCall, loc[c], Raised(g.exc, a.res))

DryContexts == {[k EXCEPT !.dry_run = TRUE] : k \in Contexts}

InitDry ==
  /\ InitWith({StoreWithout, StoreWith}, DryContexts)
  /\ faultsLeft = 0

NextDry ==
  \/ \E c \in OpsClients : StartCat(c)
  \/ \E c \in OpsClients : Cat_259(c)
  \/ \E c \in OpsClients : StartLS(c)
  \/ \E c \in OpsClients : LS_467(c)
  \/ \E c \in OpsClients : StartSetACL(c)
  \/ \E c \in OpsClients : SetACL_478(c)
  \/ \E c \in OpsClients : SetACL_482(c)
  \/ \E c \in OpsClients : StartCopy(c)
  \/ \E c \in OpsClients : StartCopyInto(c)
  \/ \E c \in OpsClients : Copy_457(c)
  \/ \E c \in OpsClients : StartExists(c)
  \/ \E c \in OpsClients : Exists_494(c)
  \/ \E c \in OpsClients : StartRemove(c)
  \/ \E c \in OpsClients : Remove_507(c)
  \/ \E c \in OpsClients : StartGetGeneration(c)
  \/ \E c \in OpsClients : GetGeneration_527(c)
  \/ \E c \in OpsClients : StartGet(c)
  \/ \E c \in OpsClients : Get_93(c)
  \/ \E c \in OpsClients : StartIncrement(c)
  \/ \E c \in OpsClients : Increment_98(c)
  \/ \E c \in OpsClients : Increment_102(c)

SpecDry == InitDry /\ [][NextDry]_vars

\* ------------------------------------------------------------- Cat, Get and SetACL under faults
\* clients without a default acl, with an empty one and with a canned one
AclContexts ==
  {[k EXCEPT !.acl = a] : k \in Contexts, a \in {<<>>, << <<>> >>, << <<"private">> >>}}

\* a Copy from a local file to a remote or to a local destination, with the
\* retries argument the caller may pass
StartCopyRetries(c) ==
  \E dst \in {CounterPath, LocalDest}, retries \in RetriesArgs :
    Start(c, MaxOps, [NoOp EXCEPT !.name = "Copy", !.src = LocalFile, !.dst = dst,
                                  !.retries = retries],
          "Copy_457", Copy(ctx, LocalFile, dst, <<>>, <<>>, [NoKwargs EXCEPT !.retries = retries]))

InitReads ==
  /\ InitWith({StoreWithout, StoreWith}, AclContexts)
  /\ faultsLeft = MaxFaults

NextReads ==
  \/ \E c \in OpsClients : StartCat(c)
  \/ \E c \in OpsClients : Cat_259(c)
  \/ \E c \in OpsClients : StartGet(c)
  \/ \E c \in OpsClients : Get_93(c)
  \/ \E c \in OpsClients : StartCopyRetries(c)
  \/ \E c \in OpsClients : Copy_457(c)
  \/ \E c \in OpsClients : StartSetACL(c)
  \/ \E c \in OpsClients : SetACL_478(c)
  \/ \E c \in OpsClients : SetACL_482(c)

SpecReads == InitReads /\ [][NextReads]_vars

\* ------------------------------------------------------------- the functions on their inputs
\* the URLs of up to MaxUrlLen pieces
UrlAtoms == {PUBLIC_BASE_HTTPS_URL, PRIVATE_BASE_HTTPS_URL, BASE_GS_URL, "b", "/"}
Urls == UNION {[1..n -> UrlAtoms] : n \in 0..MaxUrlLen}

\* a caller that has not called anything yet applies CanonicalizeURL
CanonicalizeCase(c) ==
  /\ op[c].name = ""
  /\ \E url \in Urls, strict \in BOOLEAN :
       /\ op' = [op EXCEPT ![c] = [NoOp EXCEPT !.name = "CanonicalizeURL", !.src = url,
                                               !.strict = strict]]
       /\ result' = [result EXCEPT ![c] =
                       CanonicalizeURL(url, strict) @@ [res |-> <<>>]]
  /\ calls' = [calls EXCEPT ![c] = calls[c] + 1]
  /\ UNCHANGED <<store, genClock, ctx, pc, call, log, snap, slept, loc, faultsLeft,
                 trackers, returns, accepted, removes, interf, rejected, cfgVars>>

\* the error texts made of the markers the filter and the taxonomy know
Markers ==
  <<"GSResponseError", "code=PreconditionFailed", "code=NoSuchKey", "InvalidUriError:",
    "CommandException: No URIs matched",
    "CommandException: One or more URIs matched no objects",
    RESUMABLE_UPLOAD_ERROR, RESUMABLE_DOWNLOAD_ERROR,
    "no configured", "detail=Authorization", "Failure: ">>
RECURSIVE MarkerText(_, _)
MarkerText(S, i) ==
  IF i > Len(Markers) THEN <<>>
  ELSE (IF i \in S THEN <<Markers[i]>> ELSE <<>>) \o MarkerText(S, i + 1)
FilterCodes == {0 - 9, 0 - 1, 1, 2}
FilterCmds ==
  {Copy([gsutil_bin |-> GsutilBin, boto_file |-> DEFAULT_BOTO_FILE, retries |-> 0,
         acl |-> <<>>],
        LocalFile, CounterPath, <<>>, <<0>>, NoKwargs).cmd,
   ExistsCall(CounterPath).cmd}
FailedResults ==
  {Result(cmd, rc, <<>>, MarkerText(S, 1)) :
     cmd \in FilterCmds, rc \in FilterCodes, S \in SUBSET (1..Len(Markers))}

\* a caller that has not called anything yet has _RetryFilter decide about the
\* RunCommandError of a failed result
FilterCase(c) ==
  /\ op[c].name = ""
  /\ \E r \in FailedResults :
       \E f \in {RetryFilter([exc |-> RunCommandError, result |-> r])} :
          /\ op' = [op EXCEPT ![c] = [NoOp EXCEPT !.name = "_RetryFilter"]]
          /\ log' = [log EXCEPT ![c] = [NoLog EXCEPT !.tries = 1, !.last = <<r>>,
                                                      !.generic = FailureClass(r) = "Generic"]]
          /\ result' = [result EXCEPT ![c] =
                          IF f.raise # <<>> THEN Raised(f.raise[1], <<r>>)
                          ELSE Returned(f.ret, <<r>>)]
          /\ trackers' = trackers \ f.unlink
  /\ calls' = [calls EXCEPT ![c] = calls[c] + 1]
  /\ UNCHANGED <<store, genClock, ctx, pc, call, snap, slept, loc, faultsLeft,
                 returns, accepted, removes, interf, rejected, cfgVars>>

InitFunctions ==
  /\ InitCommon({StoreWithout})
  /\ faultsLeft = 0

NextFunctions ==
  \/ \E c \in OpsClients : CanonicalizeCase(c)
  \/ \E c \in OpsClients : FilterCase(c)

SpecFunctions == InitFunctions /\ [][NextFunctions]_vars

\* ------------------------------------------------------------- Cat, LS and Copy of paths in HTTPS form
\* the counter object and the directory in the three forms of a remote path
CounterForms ==
  {<<prefix>> \o Tail(CounterPath) :
     prefix \in {BASE_GS_URL, PUBLIC_BASE_HTTPS_URL, PRIVATE_BASE_HTTPS_URL}}
DirForms ==
  {<<prefix>> \o Tail(RemoteDir) :
     prefix \in {BASE_GS_URL, PUBLIC_BASE_HTTPS_URL, PRIVATE_BASE_HTTPS_URL}}

StartCatForm(c) ==
  \E path \in CounterForms \cup {LocalFile} :
    Start(c, MaxOps, [NoOp EXCEPT !.name = "Cat", !.src = path], "Cat_259",
          Cat(ctx, path, NoKwargs))

StartLSForm(c) ==
  \E path \in DirForms \cup {LocalFile} :
    Start(c, MaxOps, [NoOp EXCEPT !.name = "LS", !.src = path], "LS_467",
          LS(ctx, path, NoKwargs))

StartCopyForm(c) ==
  \E src \in CounterForms \cup {LocalFile}, dst \in CounterForms \cup {LocalDest} :
    Start(c, MaxOps, [NoOp EXCEPT !.name = "Copy", !.src = src, !.dst = dst],
          "Copy_457", Copy(ctx, src, dst, <<>>, <<>>, NoKwargs))

InitForms ==
  /\ InitCommon({StoreWithout, StoreWith})
  /\ faultsLeft = MaxFaults

NextForms ==
  \/ \E c \in OpsClients : StartCatForm(c)
  \/ \E c \in OpsClients : Cat_259(c)
  \/ \E c \in OpsClients : StartLSForm(c)
  \/ \E c \in OpsClients : LS_467(c)
  \/ \E c \in OpsClients : StartCopyForm(c)
  \/ \E c \in OpsClients : Copy_457(c)

SpecForms == InitForms /\ [][NextForms]_vars

\* ------------------------------------------------------------- the filter on other casings of the error text
\* the markers as the tool would print them in lower case
LowerMarkers ==
  <<"gsresponseerror", "code=preconditionfailed", "code=nosuchkey", "invalidurierror:",
    "commandexception: no uris matched",
    "commandexception: one or more uris matched no objects",
    "too many resumable upload attempts failed without progress",
    "too many resumable download attempts failed without progress",
    "no configured", "detail=authorization", "failure: ">>
RECURSIVE LowerText(_, _)
LowerText(S, i) ==
  IF i > Len(Markers) THEN <<>>
  ELSE (IF i \in S THEN <<LowerMarkers[i]>> ELSE <<>>) \o LowerText(S, i + 1)

\* the marker combinations of up to MaxMarkers markers
MarkerSets == {S \in SUBSET (1..Len(Markers)) : Cardinality(S) <= MaxMarkers}

\* a caller that has not called anything yet has _RetryFilter decide about a
\* failed result whose text is in the markers' casing or in lower case; src
\* keeps the text in the markers' casing
FilterCasing(c) ==
  /\ op[c].name = ""
  /\ \E cmd \in FilterCmds, rc \in FilterCodes, S \in MarkerSets, lower \in BOOLEAN :
       \E r \in {Result(cmd, rc, <<>>, IF lower THEN LowerText(S, 1) ELSE MarkerText(S, 1))} :
       \E f \in {RetryFilter([exc |-> RunCommandError, result |-> r])} :
          /\ op' = [op EXCEPT ![c] = [NoOp EXCEPT !.name = "_RetryFilter",
                                                  !.src = MarkerText(S, 1)]]
          /\ log' = [log EXCEPT ![c] = [NoLog EXCEPT !.tries = 1, !.last = <<r>>,
                                                      !.generic = FailureClass(r) = "Generic"]]
          /\ result' = [result EXCEPT ![c] =
                          IF f.raise # <<>> THEN Raised(f.raise[1], <<>>)
                          ELSE Returned(f.ret, <<>>)]
          /\ trackers' = trackers \ f.unlink
  /\ calls' = [calls EXCEPT ![c] = calls[c] + 1]
  /\ UNCHANGED <<store, genClock, ctx, pc, call, snap, slept, loc, faultsLeft,
                 returns, accepted, removes, interf, rejected, cfgVars>>

NextCasing == \E c \in OpsClients : FilterCasing(c)

SpecCasing == InitFunctions /\ [][NextCasing]_vars

\* ------------------------------------------------------------- construction of clients
CacheA == <<"/", "cacheA">>
CacheB == <<"/", "cacheB">>
COMMON_CACHE == "common"
GSUTIL_TAR == "gsutil_3.25.tar.gz"
DEFAULT_GSUTIL_BUILDER_BIN == <<"/b/build/third_party/gsutil/gsutil">>
WhichGsutil == <<"/usr/bin/gsutil">>
GivenBin == <<"/opt/gsutil">>

\* the directory of the unpacked tarball in the common cache (ref.path)
TarballPath(common_path) == common_path \o <<"/", GSUTIL_TAR>>

\* what the process finds when it resolves the path: commandline.GetCacheDir(),
\* os.path.exists(DEFAULT_GSUTIL_BUILDER_BIN), osutils.Which('gsutil')
BinInputs ==
  [GetCacheDir : {<<>>, <<CacheA>>}, builder_exists : BOOLEAN, Which : {<<>>, <<WhichGsutil>>}]
CacheDirArgs == {<<>>, <<CacheA>>, <<CacheB>>}

\* the path GetDefaultGSUtilBin computes when DEFAULT_GSUTIL_BIN is None
ResolveGSUtilBin(cache_dir, e) ==
  LET dir == IF cache_dir = <<>> THEN e.GetCacheDir ELSE cache_dir
  IN IF dir # <<>>
     THEN TarballPath(dir[1] \o <<"/", COMMON_CACHE>>) \o <<"/", "gsutil", "/", "gsutil">>
     ELSE IF e.builder_exists THEN DEFAULT_GSUTIL_BUILDER_BIN
     ELSE IF e.Which # <<>> THEN e.Which[1]
     ELSE <<"gsutil">>

InitBotoFileEnvFirst(boto_file, env) ==
  IF env # <<>> THEN env[1]
  ELSE IF boto_file # <<>> THEN boto_file[1]
  ELSE DEFAULT_BOTO_FILE

\* the credential file __init__ chooses
InitBotoFile(boto_file, env) ==
  IF boto_file # <<>> THEN boto_file[1]
  ELSE IF env # <<>> THEN env[1]
  ELSE DEFAULT_BOTO_FILE
\* default_boto of __init__
InitDefaultBoto(boto_file, env) == boto_file = <<>> /\ env = <<>>

\* a thread calls the class method itself
StartGetDefaultGSUtilBin(c) ==
  /\ TotalCalls < MaxBinCalls
  /\ \E cache_dir \in CacheDirArgs :
       Start(c, TotalCalls + 1,
             [NoOp EXCEPT !.name = "GetDefaultGSUtilBin", !.cache_dir = cache_dir],
             "GetDefaultGSUtilBin_143", NoCall)

\* a thread constructs a GSContext with these arguments
GSContextArgs(c, limit, boto_file, cache_dir, gsutil_bin) ==
  /\ TotalCalls < limit
  /\ Start(c, TotalCalls + 1,
           [NoOp EXCEPT !.name = "__init__", !.cache_dir = cache_dir,
                        !.gsutil_bin = gsutil_bin, !.boto_file = boto_file],
           IF gsutil_bin = <<>> THEN "GetDefaultGSUtilBin_143" ELSE "__init___193", NoCall)

\* construction with any tool path and cache directory
StartGSContext(c) ==
  \E cache_dir \in CacheDirArgs, gsutil_bin \in {<<>>, <<GivenBin>>} :
    GSContextArgs(c, MaxBinCalls, <<>>, cache_dir, gsutil_bin)

\* construction with any credential file argument
StartGSContextBoto(c) ==
  \E boto_file \in {<<>>, <<ExplicitBoto>>}, gsutil_bin \in {<<>>, <<GivenBin>>} :
    GSContextArgs(c, MaxEnvCalls, boto_file, <<>>, gsutil_bin)

\* what a step of the construction leaves alone
ConfigStep(c, p) ==
  /\ pc' = [pc EXCEPT ![c] = p]
  /\ UNCHANGED <<store, genClock, ctx, op, call, log, snap, slept, faultsLeft,
                 trackers, calls, accepted, removes, interf, rejected, environ, callerEnv,
                 files>>

\* if cls.DEFAULT_GSUTIL_BIN is None:
GetDefaultGSUtilBin_143(c) ==
  /\ pc[c] = "GetDefaultGSUtilBin_143"
  /\ ConfigStep(c, IF DEFAULT_GSUTIL_BIN = <<>> THEN "GetDefaultGSUtilBin_144"
                   ELSE "GetDefaultGSUtilBin_167")
  /\ UNCHANGED <<DEFAULT_GSUTIL_BIN, resolved, self, loc, result, returns>>

\* the body of the if: the path is resolved and assigned to the class attribute
GetDefaultGSUtilBin_144(c) ==
  /\ pc[c] = "GetDefaultGSUtilBin_144"
  /\ \E e \in BinInputs :
       /\ DEFAULT_GSUTIL_BIN' = <<ResolveGSUtilBin(op[c].cache_dir, e)>>
       /\ resolved' = Append(resolved, ResolveGSUtilBin(op[c].cache_dir, e))
  /\ ConfigStep(c, "GetDefaultGSUtilBin_167")
  /\ UNCHANGED <<self, loc, result, returns>>

\* return cls.DEFAULT_GSUTIL_BIN, to the caller or to __init__ (gsutil_bin)
GetDefaultGSUtilBin_167(c) ==
  /\ pc[c] = "GetDefaultGSUtilBin_167"
  /\ returns' = [returns EXCEPT ![c] = Append(returns[c], DEFAULT_GSUTIL_BIN[1])]
  /\ IF op[c].name = "__init__"
     THEN /\ ConfigStep(c, "__init___196")
          /\ loc' = [loc EXCEPT ![c].gsutil_bin = DEFAULT_GSUTIL_BIN[1]]
          /\ UNCHANGED result
     ELSE /\ ConfigStep(c, "idle")
          /\ result' = [result EXCEPT ![c] = Returned(DEFAULT_GSUTIL_BIN, <<>>)]
          /\ UNCHANGED loc
  /\ UNCHANGED <<DEFAULT_GSUTIL_BIN, resolved, self>>

\* self._CheckFile('gsutil not found', gsutil_bin)
GSContext_193(c) ==
  /\ pc[c] = "__init___193"
  /\ \E isfile \in BOOLEAN :
       IF isfile
       THEN /\ ConfigStep(c, "__init___196")
            /\ loc' = [loc EXCEPT ![c].gsutil_bin = op[c].gsutil_bin[1]]
            /\ UNCHANGED result
       ELSE /\ ConfigStep(c, "idle")
            /\ result' = [result EXCEPT ![c] = Raised(GSContextException, <<>>)]
            /\ UNCHANGED loc
  /\ UNCHANGED <<DEFAULT_GSUTIL_BIN, resolved, self, returns>>

\* the client __init__ leaves when it returns
GSContext(gsutil_bin, boto_file) ==
  [NoSelf EXCEPT !.gsutil_bin = gsutil_bin, !.boto_file = boto_file, !.constructed = TRUE]

\* the choice of the credential file and the other fields; with init_boto the
\* test of the credentials comes next, before the check of the file
GSContext_196(c) ==
  /\ pc[c] = "__init___196"
  /\ ConfigStep(c, IF op[c].init_boto THEN "_TestGSLs_229" ELSE "__init___214")
  /\ loc' = [loc EXCEPT ![c].boto_file = InitBotoFile(op[c].boto_file, environ),
                        ![c].default_boto = InitDefaultBoto(op[c].boto_file, environ)]
  /\ UNCHANGED <<DEFAULT_GSUTIL_BIN, resolved, self, result, returns>>

\* if not default_boto: self._CheckFile('Boto credentials not found', boto_file)
GSContext_214(c) ==
  /\ pc[c] = "__init___214"
  /\ IF ~loc[c].default_boto /\ ~IsFile(files, loc[c].boto_file)
     THEN /\ result' = [result EXCEPT ![c] = Raised(GSContextException, <<>>)]
          /\ UNCHANGED self
     ELSE /\ result' = [result EXCEPT ![c] = Returned(<<>>, <<>>)]
          /\ self' = [self EXCEPT ![c] = GSContext(loc[c].gsutil_bin, loc[c].boto_file)]
  /\ ConfigStep(c, "idle")
  /\ UNCHANGED <<DEFAULT_GSUTIL_BIN, resolved, loc, returns>>

\* ------------------------------------------------------------- _InitBoto
\* the object under construction, as the commands of _InitBoto see it
InitSelf(c) ==
  [NoSelf EXCEPT !.gsutil_bin = loc[c].gsutil_bin, !.boto_file = loc[c].boto_file]

\* what gsutil ls may answer: the listing, or a failure with either text
LsResults(cmd) ==
  {Result(cmd, 0, <<"gs://b/">>, <<>>),
   Result(cmd, 1, <<>>, <<"You have ", "no configured", " credentials">>),
   Result(cmd, 1, <<>>, GenericText),
   Result(cmd, 2, <<>>, <<"You have ", "no configured", " credentials">>)}

\* the value _TestGSLs returns for the result of ls
TestGSLs(res) == ~(res.returncode = 1 /\ AuthorizationMarked(res.error))

\* a step of _InitBoto that ran the command k with the answer r and left the
\* credential files as fs
InitBotoStep(c, p, k, r, fs) ==
  /\ pc' = [pc EXCEPT ![c] = p]
  /\ call' = [call EXCEPT ![c] = k]
  /\ log' = [log EXCEPT ![c] = [tries |-> log[c].tries + 1, last |-> <<r>>,
                                generic |-> FALSE]]
  /\ files' = fs
  /\ UNCHANGED <<store, genClock, ctx, op, snap, slept, loc, faultsLeft, trackers, calls,
                 returns, accepted, removes, interf, rejected, DEFAULT_GSUTIL_BIN,
                 resolved, environ, self, callerEnv>>

\* _TestGSLs: ls is run once, a failure is no exception, and without an
\* authorization failure _InitBoto is over
TestGSLs_229(c) ==
  /\ pc[c] = "_TestGSLs_229"
  /\ \E k \in {DoCommand(InitSelf(c), << <<"ls">> >>,
                         [NoKwargs EXCEPT !.retries = <<0>>, !.error_code_ok = TRUE])} :
     \E r \in LsResults(k.cmd) :
       /\ InitBotoStep(c, IF TestGSLs(r) THEN "__init___214" ELSE "_ConfigureBotoConfig_237",
                       k, r, files)
       /\ UNCHANGED result

\* _ConfigureBotoConfig: config is run once; it may write the credential file,
\* full or empty, and may fail. An empty file is removed and the construction
\* raises; a failed config raises what DoCommand raised.
ConfigureBotoConfig_237(c) ==
  /\ pc[c] = "_ConfigureBotoConfig_237"
  /\ \E k \in {DoCommand(InitSelf(c), << <<"config">> >>, [NoKwargs EXCEPT !.retries = <<0>>])} :
     \E rc \in {0, 1}, written \in {<<>>, <<0>>, <<1>>} :
     \E r \in {Result(k.cmd, rc, <<>>, IF rc = 0 THEN <<>> ELSE GenericText)} :
     \E fs \in {IF written = <<>> THEN files
                ELSE WriteFile(files, loc[c].boto_file, written[1])} :
       IF IsFile(fs, loc[c].boto_file) /\ fs[loc[c].boto_file] = 0
       THEN /\ InitBotoStep(c, "idle", k, r, RemoveFile(fs, loc[c].boto_file))
            /\ result' = [result EXCEPT ![c] = Raised(GSContextException, <<r>>)]
       ELSE IF rc # 0
       THEN /\ InitBotoStep(c, "idle", k, r, fs)
            /\ result' = [result EXCEPT ![c] = Raised(RunCommandError, <<r>>)]
       ELSE /\ InitBotoStep(c, "__init___214", k, r, fs)
            /\ UNCHANGED result

\* construction with any credential file argument and either init_boto
StartGSContextInitBoto(c) ==
  /\ TotalCalls < MaxEnvCalls
  /\ \E boto_file \in {<<>>, <<ExplicitBoto>>}, init_boto \in BOOLEAN :
       Start(c, TotalCalls + 1,
             [NoOp EXCEPT !.name = "__init__", !.gsutil_bin = <<GivenBin>>,
                          !.boto_file = boto_file, !.init_boto = init_boto],
             "__init___193", NoCall)

InitInitBoto ==
  /\ InitWithFiles({StoreWith}, {k \in Contexts : k.retries = 0}, {<<>>, <<EnvBoto>>},
                   FileSystems)
  /\ faultsLeft = 0

NextInitBoto ==
  \/ \E c \in OpsClients : StartGSContextInitBoto(c)
  \/ \E c \in OpsClients : GSContext_193(c)
  \/ \E c \in OpsClients : GSContext_196(c)
  \/ \E c \in OpsClients : TestGSLs_229(c)
  \/ \E c \in OpsClients : ConfigureBotoConfig_237(c)
  \/ \E c \in OpsClients : GSContext_214(c)

SpecInitBoto == InitInitBoto /\ [][NextInitBoto]_vars

InitConfig ==
  /\ InitWith({StoreWith}, {k \in Contexts : k.retries = 0})
  /\ faultsLeft = 0

NextConfig ==
  \/ \E c \in Clients : StartGetDefaultGSUtilBin(c)
  \/ \E c \in Clients : StartGSContext(c)
  \/ \E c \in Clients : GetDefaultGSUtilBin_143(c)
  \/ \E c \in Clients : GetDefaultGSUtilBin_144(c)
  \/ \E c \in Clients : GetDefaultGSUtilBin_167(c)
  \/ \E c \in Clients : GSContext_193(c)
  \/ \E c \in Clients : GSContext_196(c)
  \/ \E c \in Clients : GSContext_214(c)

SpecConfig == InitConfig /\ [][NextConfig]_vars

\* ------------------------------------------------------------- the environment of the commands
\* the extra_env a caller passes to a command: none, or a dict of its own
ExtraEnvArgs ==
  {<<>>, <<EmptyDict>>, <<[BOTO_CONFIG |-> OtherBoto]>>, <<[ROOT |-> <<"/">>]>>}

\* a constructed client runs a command through DoCommand; reused: the caller
\* passes the dict it keeps and has passed before
StartDoCommand(c) ==
  /\ pc[c] = "idle"
  /\ self[c].constructed
  /\ calls[c] < MaxEnvCalls
  /\ \E reused \in BOOLEAN :
     \E extra_env \in IF reused THEN {<<callerEnv>>} ELSE ExtraEnvArgs :
     \E k \in {DoCommand(self[c], << <<"getacl">>, CounterPath >>,
                         [NoKwargs EXCEPT !.extra_env = extra_env])} :
       /\ op' = [op EXCEPT ![c] = [NoOp EXCEPT !.name = "DoCommand", !.dst = CounterPath,
                                               !.extra_env = extra_env, !.reused = reused]]
       /\ call' = [call EXCEPT ![c] = k]
       /\ callerEnv' = IF reused THEN k.extra_env ELSE callerEnv
  /\ calls' = [calls EXCEPT ![c] = calls[c] + 1]
  /\ pc' = [pc EXCEPT ![c] = "DoCommand_406"]
  /\ log' = [log EXCEPT ![c] = NoLog]
  /\ slept' = [slept EXCEPT ![c] = <<>>]
  /\ snap' = [snap EXCEPT ![c] = NoSnap]
  /\ loc' = [loc EXCEPT ![c] = NoLoc]
  /\ result' = [result EXCEPT ![c] = NoResult]
  /\ interf' = [interf EXCEPT ![c] = 0]
  /\ rejected' = [rejected EXCEPT ![c] = 0]
  /\ UNCHANGED <<store, genClock, ctx, faultsLeft, trackers, returns, accepted, removes,
                 DEFAULT_GSUTIL_BIN, resolved, environ, self, files>>

DoCommand_406(c) == Return_Result(c, "DoCommand_406")

InitEnv ==
  /\ InitWithFiles({StoreWith}, {k \in Contexts : k.retries = 0}, {<<>>, <<EnvBoto>>},
                   {AllFiles, NoFiles})
  /\ faultsLeft = 0

NextEnv ==
  \/ \E c \in OpsClients : StartGSContextBoto(c)
  \/ \E c \in OpsClients : GetDefaultGSUtilBin_143(c)
  \/ \E c \in OpsClients : GetDefaultGSUtilBin_144(c)
  \/ \E c \in OpsClients : GetDefaultGSUtilBin_167(c)
  \/ \E c \in OpsClients : GSContext_193(c)
  \/ \E c \in OpsClients : GSContext_196(c)
  \/ \E c \in OpsClients : GSContext_214(c)
  \/ \E c \in OpsClients : StartDoCommand(c)
  \/ \E c \in OpsClients : DoCommand_406(c)

SpecEnv == InitEnv /\ [][NextEnv]_vars

\* ------------------------------------------------------------- TemporaryURL
\* constants.TRASH_BUCKET
TRASH_BUCKET == <<BASE_GS_URL, "chromeos-throw-away-bucket">>
BodyError == "BodyError"

\* the URL TemporaryURL makes of the prefix, the user and a fresh uuid
TemporaryURLOf(prefix) ==
  TRASH_BUCKET \o <<"/", "chromite-temp", "/", prefix, "/", "user", "/", "uuid">>

\* ctx.Remove(url, ignore_missing=True) of the client GSContext() makes
TemporaryURLRemove(url) ==
  DoCommand(GSContext(GsutilBin, DEFAULT_BOTO_FILE), << <<"rm">>, url >>, NoKwargs)

TemporaryURLAfterBodyNoFinally(raised) == IF raised THEN "idle" ELSE "TemporaryURL_558"

\* try: yield url / finally: the place after the body, however it ended
TemporaryURLAfterBody(raised) == "TemporaryURL_558"

StartTemporaryURL(c) ==
  \E prefix \in {"p", "q"} :
    Start(c, MaxOps, [NoOp EXCEPT !.name = "TemporaryURL", !.dst = TemporaryURLOf(prefix)],
          "TemporaryURL_554", TemporaryURLRemove(TemporaryURLOf(prefix)))

\* ctx.Remove(url, ignore_missing=True) before the body
TemporaryURL_554(c) ==
  /\ pc[c] = "TemporaryURL_554"
  /\ \E x \in RunInputs(c) :
       \E a \in {Attempt(c, x)} :
       \E r \in {Remove(a, TRUE)} :
          /\ Commit(c, x, a)
          /\ UNCHANGED <<rejected, returns>>
          /\ IF r.status = "returned"
             THEN Goto(c, a, "TemporaryURL_556", NoCall,
                       [loc[c] EXCEPT !.removals = 1], NoResult)
             ELSE Goto(c, a, "idle", NoCall, [loc[c] EXCEPT !.removals = 1],
                       Raised(r.exc, a.res))

\* yield url: the body of the with statement, which may put an object at the
\* URL and may raise
TemporaryURL_556(c) ==
  /\ pc[c] = "TemporaryURL_556"
  /\ \E put \in BOOLEAN, raised \in BOOLEAN :
       /\ store' = IF put THEN PutObject(store, op[c].dst, <<"data">>, genClock + 1)
                   ELSE store
       /\ genClock' = IF put THEN genClock + 1 ELSE genClock
       /\ loc' = [loc EXCEPT ![c].body = IF raised THEN "raised" ELSE "returned"]
       /\ pc' = [pc EXCEPT ![c] = TemporaryURLAfterBody(raised)]
       /\ result' = [result EXCEPT ![c] =
                       IF TemporaryURLAfterBody(raised) = "idle"
                       THEN Raised(BodyError, <<>>) ELSE result[c]]
  /\ call' = [call EXCEPT ![c] = TemporaryURLRemove(op[c].dst)]
  /\ UNCHANGED <<ctx, op, log, snap, slept, faultsLeft, trackers, calls, returns,
                 accepted, removes, interf, rejected, cfgVars>>

\* finally: ctx.Remove(url, ignore_missing=True); an exception of the body is
\* raised again unless the removal raised one
TemporaryURL_558(c) ==
  /\ pc[c] = "TemporaryURL_558"
  /\ \E x \in RunInputs(c) :
       \E a \in {Attempt(c, x)} :
       \E r \in {Remove(a, TRUE)} :
          /\ Commit(c, x, a)
          /\ UNCHANGED <<rejected, returns>>
          /\ IF r.status # "returned"
             THEN Goto(c, a, "idle", NoCall, [loc[c] EXCEPT !.removals = 2],
                       Raised(r.exc, a.res))
             ELSE IF loc[c].body = "raised"
             THEN Goto(c, a, "idle", NoCall, [loc[c] EXCEPT !.removals = 2],
                       Raised(BodyError, a.res))
             ELSE Goto(c, a, "idle", NoCall, [loc[c] EXCEPT !.removals = 2],
                       Returned(<<>>, a.res))

InitTemporaryURL ==
  /\ InitWith({StoreWith, PutObject(StoreWith, TemporaryURLOf("p"), <<"old">>, GenBase - 2)},
              {k \in Contexts : k.retries = 0})
  /\ faultsLeft = MaxFaults

NextTemporaryURL ==
  \/ \E c \in OpsClients : StartTemporaryURL(c)
  \/ \E c \in OpsClients : TemporaryURL_554(c)
  \/ \E c \in OpsClients : TemporaryURL_556(c)
  \/ \E c \in OpsClients : TemporaryURL_558(c)

SpecTemporaryURL == InitTemporaryURL /\ [][NextTemporaryURL]_vars

\* ------------------------------------------------------------- the counter under faults
\* one Increment of one client, with disturbed runs of the tool and a removal
\* of the counter by somebody else
StartIncrementOnce(c) ==
  Start(c, MaxOps, [NoOp EXCEPT !.name = "Increment"], "Increment_98",
        GetGenerationCall(ctx, CounterPath))

InitCounter ==
  /\ InitCommon({StoreWithout, StoreWith})
  /\ faultsLeft = MaxFaults

NextCounter ==
  \/ \E c \in OpsClients : StartIncrementOnce(c)
  \/ \E c \in OpsClients : Increment_98(c)
  \/ \E c \in OpsClients : Increment_101(c)
  \/ \E c \in OpsClients : Increment_102(c)
  \/ \E c \in OpsClients : Increment_109(c)
  \/ RemoveCounter

SpecCounter == InitCounter /\ [][NextCounter]_vars

\* ------------------------------------------------------------- the counter when a write is applied and reported failed
InitLate ==
  /\ InitCommon({StoreWithout, StoreWith})
  /\ faultsLeft = MaxFaults

NextLate ==
  \/ \E c \in OpsClients : StartIncrementOnce(c)
  \/ \E c \in OpsClients : Increment_98(c)
  \/ \E c \in OpsClients : Increment_101(c)
  \/ \E c \in OpsClients : Increment_102Late(c)
  \/ \E c \in OpsClients : Increment_109(c)

SpecLate == InitLate /\ [][NextLate]_vars

\* ------------------------------------------------------------- Get and Increment of several clients
StartGetAmong(c) ==
  Start(c, MaxCalls, [NoOp EXCEPT !.name = "Get", !.dst = CounterPath], "Get_93",
        Cat(ctx, CounterPath, NoKwargs))

InitMix ==
  /\ InitCommon({StoreWithout, StoreWith})
  /\ faultsLeft = 0

NextMix ==
  \/ \E c \in Clients : StartIncrement(c)
  \/ \E c \in Clients : Increment_98(c)
  \/ \E c \in Clients : Increment_101(c)
  \/ \E c \in Clients : Increment_102(c)
  \/ \E c \in Clients : Increment_109(c)
  \/ \E c \in Clients : StartGetAmong(c)
  \/ \E c \in Clients : Get_93(c)

SpecMix == InitMix /\ [][NextMix]_vars

\* ------------------------------------------------------------- the counter under contention
Init ==
  /\ InitCommon({StoreWithout})
  /\ faultsLeft = 0

Next ==
  \/ \E c \in Clients : StartIncrement(c)
  \/ \E c \in Clients : Increment_98(c)
  \/ \E c \in Clients : Increment_101(c)
  \/ \E c \in Clients : Increment_102(c)
  \/ \E c \in Clients : Increment_109(c)
  \/ RemoveCounter

Spec == Init /\ [][Next]_vars

\* the positions of a thread inside and after Increment
IncrementLabels == {"idle", "Increment_98", "Increment_101", "Increment_102", "Increment_109"}

\* the thread that runs client c's Increment moves on to the next position of
\* the call; every step of the loop (Increment_98 .. Increment_109) is such a
\* move, and one is possible whenever the thread is inside the call
IncrementStep(c) ==
  /\ pc[c] # "idle"
  /\ \E p \in IncrementLabels \ {pc[c]} : pc' = [pc EXCEPT ![c] = p]

\* the same program, with every thread that is inside a call scheduled again
SpecLive == Init /\ [][Next]_vars /\ \A c \in Clients : WF_pc(IncrementStep(c))

\* ------------------------------------------------------------- properties
Finished(c) == pc[c] = "idle" /\ result[c].status # "none"
CounterValue ==
  IF HasObject(store, CounterPath) THEN StrToInt(store[CounterPath].content) ELSE 0
CounterWrites == {a \in accepted : a.path = CounterPath}
LatestWrites == {a \in accepted : a.path = LatestPath}
OneTo(n) == [i \in 1..n |-> i]
SoleClient(c) == removes = 0 /\ \A d \in Clients \ {c} : calls[d] = 0
Successes == SumOver([c \in Clients |-> Len(returns[c])], Clients)

\* C1: a client that is the only one to touch a counter that did not exist gets
\* 1, 2, ..., N from its N Increment calls, in that order, and after the k-th
\* call the counter object holds k.
C1_SequentialIncrements ==
  \A c \in Clients :
    SoleClient(c) =>
      /\ returns[c] = OneTo(Len(returns[c]))
      /\ pc[c] = "idle" =>
           /\ Len(returns[c]) = calls[c]
           /\ CounterValue = calls[c]
           /\ calls[c] > 0 => result[c] = Returned(<<calls[c]>>, result[c].res)

C1_Witness ==
  SoleClient("c1") /\ pc["c1"] = "idle" /\ returns["c1"] = <<1, 2, 3>> /\ CounterValue = 3

\* C2: as long as nobody removes the counter, every accepted write is a
\* conditional one, no two accepted writes expected the same generation, and
\* when no call is running the counter holds the number of Increment calls that
\* returned a value.
C2_NoLostIncrement ==
  removes = 0 =>
    /\ \A a \in CounterWrites : Cardinality(a.expected) = 1
    /\ \A a1, a2 \in CounterWrites : a1.expected = a2.expected => a1 = a2
    /\ (\A c \in Clients : pc[c] = "idle") => CounterValue = Successes

C2_Witness ==
  /\ removes = 0
  /\ \A c \in Clients : pc[c] = "idle" /\ Len(returns[c]) >= 1
  /\ \E c \in Clients : rejected[c] >= 1
  /\ CounterValue = Successes

\* the call of c lost a race and met no more than that one change by others
LostOneRace(c) == Finished(c) /\ rejected[c] >= 1 /\ interf[c] <= 1
ReturnedItsWrite(c) ==
  /\ result[c].status = "returned"
  /\ result[c].value # <<>>
  /\ \E a \in CounterWrites : a.by = c /\ a.content = IntToStr(result[c].value[1])

\* C3 as stated: for every retries setting, 0 included, the caller whose write was
\* refused retries and returns the value it wrote.
C3_Original == \A c \in Clients : LostOneRace(c) => ReturnedItsWrite(c)

\* C3: with a retries setting of at least 1, the caller whose conditional write
\* was refused re-reads the generation, retries, and returns the value it wrote,
\* provided no further writer interferes.
C3_LoserRetriesToCompletion ==
  ctx.retries >= 1 => \A c \in Clients : LostOneRace(c) => ReturnedItsWrite(c)

C3_Witness ==
  /\ ctx.retries >= 1
  /\ \E c \in Clients : LostOneRace(c) /\ rejected[c] = 1 /\ ReturnedItsWrite(c)

\* C5: a Copy with version=0 is accepted only onto an object that does not exist,
\* at most one of the concurrent copies to the same absent destination is
\* accepted, and every other one ends with GSContextPreconditionFailed, which
\* UpdateLatestFilesForBot takes as found.
C5_CreateOnlyCopy ==
  /\ \A a \in LatestWrites : a.before = 0 /\ a.expected = {0}
  /\ Cardinality(LatestWrites) <= 1
  /\ \A c \in Clients :
       loc[c].copied =>
         \/ loc[c].caught = "" /\ \E a \in LatestWrites : a.by = c
         \/ loc[c].caught = GSContextPreconditionFailed /\ loc[c].found
              /\ \E a \in LatestWrites : a.by # c

C5_Witness ==
  \E c \in Clients :
    /\ loc[c].copied /\ loc[c].caught = GSContextPreconditionFailed /\ loc[c].found
    /\ \E a \in LatestWrites : a.by # c /\ a.before = 0

\* ------------------------------------------------------------- properties of single operations
IsCopy(c) == op[c].name \in {"Copy", "CopyInto"}
RemoteCopy(c) ==
  IsCopy(c) /\ (StartsWith(op[c].src, BASE_GS_URL) \/ StartsWith(op[c].dst, BASE_GS_URL))
HeaderFlagCount(cmd) == Cardinality({i \in 1..Len(cmd) : cmd[i] = <<"-h">>})

\* C4: the command of a Copy or CopyInto called with version v is a cp command
\* with exactly one header, x-goog-if-generation-match:v in decimal, also for
\* v = 0, and one called without a version has no header at all.
C4_ConditionalHeader ==
  \A c \in Clients :
    IsCopy(c) =>
      LET cmd == call[c].cmd
          h == ToolHeaders(cmd)
      IN /\ ToolSub(cmd)[1] = <<"cp">>
         /\ HeaderFlagCount(cmd) = Len(h)
         /\ IF op[c].version = <<>> THEN h = <<>>
            ELSE /\ Len(h) = 1
                 /\ h[1][1] = "x-goog-if-generation-match:"
                 /\ IsInt(Tail(h[1]))
                 /\ IfGenerationMatch(cmd) = {op[c].version[1]}

C4_Witness ==
  \E c \in Clients :
    /\ op[c].name = "CopyInto" /\ op[c].version = <<0>> /\ Finished(c)
    /\ ToolHeaders(call[c].cmd) = << <<"x-goog-if-generation-match:", "0">> >>

\* the object GetGeneration probed, as it was in the store at the probe
Probed(c) == snap[c].before
Shown(c, name, v) == IF name \in snap[c].hide THEN 0 ELSE v

\* C6: when the probe itself runs undisturbed, GetGeneration of an object that
\* is not in the store returns (0, 0) and raises nothing, and of an object that
\* is returns its generation and metageneration as read from the headers of the
\* answer, 0 standing for a header the answer lacks.
C6_GetGeneration ==
  \A c \in Clients :
    (op[c].name = "GetGeneration" /\ Finished(c) /\ snap[c].fault = <<>>) =>
      /\ result[c].status = "returned"
      /\ result[c].value =
           IF ~HasObject(Probed(c), CounterPath) THEN <<0, 0>>
           ELSE <<Shown(c, "x-goog-generation", Probed(c)[CounterPath].gen),
                  Shown(c, "x-goog-metageneration", Probed(c)[CounterPath].metagen)>>

C6_Witness ==
  \E c \in Clients :
    /\ op[c].name = "GetGeneration" /\ Finished(c) /\ snap[c].fault = <<>>
    /\ removes >= 1 /\ ~HasObject(Probed(c), CounterPath)
    /\ result[c] = Returned(<<0, 0>>, result[c].res)

\* C7 as stated: a probe that fails for another reason than NotFound makes
\* GetGeneration raise the error instead of returning.
C7_ProbeErrorsSurface ==
  \A c \in Clients :
    (/\ op[c].name = "GetGeneration" /\ Finished(c) /\ log[c].last # <<>>
     /\ FailureClass(log[c].last[1]) \notin {"", "NotFound"})
      => result[c].status = "raised"

C7_Witness ==
  \E c \in Clients :
    /\ op[c].name = "GetGeneration" /\ Finished(c)
    /\ HasObject(Probed(c), CounterPath)
    /\ log[c].tries = 1 /\ log[c].last[1].returncode = 2
    /\ FailureClass(log[c].last[1]) = "Generic"
    /\ result[c].status = "returned" /\ result[c].value = <<0, 0>>

\* C8: a command run with the retry budget n of the client, every attempt of
\* which fails with a Generic failure, is run n + 1 times and then raises
\* RunCommandError with the result of its last attempt.
C8_BudgetExhausted ==
  \A c \in Clients :
    (RemoteCopy(c) /\ log[c].generic /\ log[c].tries >= 1) =>
      /\ log[c].tries <= ctx.retries + 1
      /\ pc[c] = "idle" =>
           /\ log[c].tries = ctx.retries + 1
           /\ result[c] = Raised(RunCommandError, log[c].last)

C8_Witness ==
  \E c \in Clients :
    /\ RemoteCopy(c) /\ Finished(c) /\ log[c].generic
    /\ ctx.retries = 2 /\ log[c].tries = 3
    /\ result[c] = Raised(RunCommandError, log[c].last)
    /\ log[c].last[1].returncode = 2

\* C9: no attempt follows one that ended with a negative exit status, whatever
\* budget is left and whatever the error text says, and the command ends there
\* with RunCommandError carrying that result.
C9_SignalNotRetried ==
  \A c \in Clients :
    (log[c].last # <<>> /\ log[c].last[1].returncode < 0) =>
      /\ pc[c] = "idle"
      /\ IsCopy(c) => result[c] = Raised(RunCommandError, log[c].last)

C9_Witness ==
  \E c \in Clients :
    /\ RemoteCopy(c) /\ Finished(c) /\ ctx.retries = 2 /\ log[c].tries = 2
    /\ log[c].last[1].returncode < 0
    /\ PreconditionMarked(log[c].last[1].error)
    /\ result[c].exc = RunCommandError

\* the typed error of a failure class
TypedErrorOf(class) ==
  IF class = "PreconditionFailed" THEN GSContextPreconditionFailed ELSE GSNoSuchKey

\* C10: an attempt of a command that fails as PreconditionFailed or NotFound is
\* the last one, whatever budget is left, and the command ends there with
\* GSContextPreconditionFailed or GSNoSuchKey.
C10_TypedNotRetried ==
  \A c \in Clients :
    (/\ IsCopy(c) /\ log[c].last # <<>>
     /\ FailureClass(log[c].last[1]) \in {"PreconditionFailed", "NotFound"})
      => /\ pc[c] = "idle"
         /\ result[c] = Raised(TypedErrorOf(FailureClass(log[c].last[1])), log[c].last)

C10_Witness ==
  \E c \in Clients :
    /\ RemoteCopy(c) /\ Finished(c) /\ ctx.retries = 2 /\ log[c].tries = 1
    /\ snap[c].fault = <<>>
    /\ FailureClass(log[c].last[1]) = "PreconditionFailed"
    /\ result[c].exc = GSContextPreconditionFailed

\* C11 as stated: an attempt that fails with an authorization marker in its
\* error text is the last attempt of its command, which ends there with an error.
C11_AuthorizationNotRetried ==
  \A c \in Clients :
    (/\ IsCopy(c) /\ log[c].last # <<>>
     /\ FailureClass(log[c].last[1]) = "AuthorizationFailure")
      => pc[c] = "idle" /\ result[c].status = "raised"

C11_Witness ==
  \E c \in Clients :
    /\ RemoteCopy(c) /\ pc[c] = "Copy_457" /\ log[c].tries = 1
    /\ Contains(log[c].last[1].error, "no configured")
    /\ log[c].last[1].returncode = 1

\* the retry budget of the copy c runs
CopyBudget(c) == IF RemoteCopy(c) THEN ctx.retries ELSE 0
CopyDest(c) == call[c].cmd[Len(call[c].cmd)]

\* C12: after an attempt of a copy failed with a resumable-transfer error the
\* tracker file of its destination is gone, that of another transfer is not, the copy is
\* run again while budget is left, and with the budget used up it ends with
\* RunCommandError after at most budget + 1 runs.
C12_ResumableRetry ==
  \A c \in Clients :
    (/\ IsCopy(c) /\ log[c].last # <<>>
     /\ FailureClass(log[c].last[1]) = "ResumableTransferFailure")
      => /\ trackers \cap GetTrackerFilenames(CopyDest(c)) = {}
         /\ OtherTracker \in trackers
         /\ log[c].tries <= CopyBudget(c) + 1
         /\ log[c].tries < CopyBudget(c) + 1 => pc[c] = "Copy_457"
         /\ log[c].tries = CopyBudget(c) + 1 =>
              result[c] = Raised(RunCommandError, log[c].last)

C12_Witness ==
  \E c \in Clients :
    /\ op[c].name = "Copy" /\ op[c].dst = CounterPath
    /\ pc[c] = "Copy_457" /\ log[c].tries = 2
    /\ FailureClass(log[c].last[1]) = "ResumableTransferFailure"
    /\ GetTrackerFilenames(CounterPath) \subseteq TrackerDir
    /\ trackers \cap GetTrackerFilenames(CounterPath) = {}

\* ------------------------------------------------------------- properties of Remove, Exists, CopyInto
LastClass(c) == IF log[c].last = <<>> THEN "" ELSE FailureClass(log[c].last[1])
Undisturbed(c) == snap[c].fault = <<>>

\* C16: a finished Remove returned when the rm succeeded, and also when it
\* failed as NotFound and ignore_missing was set; it raised GSNoSuchKey when
\* it failed as NotFound without ignore_missing, and raised the error in both
\* modes when it failed otherwise. An rm of an object that is not there
\* fails as NotFound.
C16_Remove ==
  \A c \in Clients :
    (op[c].name = "Remove" /\ Finished(c)) =>
      /\ (Undisturbed(c) /\ ~HasObject(Probed(c), op[c].dst)) => LastClass(c) = "NotFound"
      /\ (Undisturbed(c) /\ HasObject(Probed(c), op[c].dst)) =>
            LastClass(c) = "" /\ ~HasObject(store, op[c].dst)
      /\ CASE LastClass(c) = "" -> result[c] = Returned(<<>>, log[c].last)
           [] LastClass(c) = "NotFound" ->
                IF op[c].ignore_missing THEN result[c] = Returned(<<>>, log[c].last)
                ELSE result[c] = Raised(GSNoSuchKey, log[c].last)
           [] OTHER -> /\ result[c].status = "raised"
                       /\ result[c].exc \in {RunCommandError, GSContextPreconditionFailed}

C16_Witness ==
  \E c \in Clients :
    /\ op[c].name = "Remove" /\ Finished(c) /\ op[c].ignore_missing
    /\ Undisturbed(c) /\ ~HasObject(Probed(c), op[c].dst)
    /\ result[c].status = "returned"

\* C17: a finished Exists returned False exactly when its probe failed as
\* NotFound, returned True exactly when the probe succeeded, which it does on
\* an object that is there, and raised the error of any other failure.
C17_Exists ==
  \A c \in Clients :
    (op[c].name = "Exists" /\ Finished(c)) =>
      /\ (Undisturbed(c) /\ ~HasObject(Probed(c), op[c].dst)) => LastClass(c) = "NotFound"
      /\ (Undisturbed(c) /\ LastClass(c) = "") => HasObject(Probed(c), op[c].dst)
      /\ CASE LastClass(c) = "" -> result[c] = Returned(<<TRUE>>, log[c].last)
           [] LastClass(c) = "NotFound" -> result[c] = Returned(<<FALSE>>, log[c].last)
           [] OTHER -> /\ result[c].status = "raised"
                       /\ result[c].exc \in {RunCommandError, GSContextPreconditionFailed}

C17_Witness ==
  \E c \in Clients :
    /\ op[c].name = "Exists" /\ Finished(c)
    /\ LastClass(c) = "SignalTerminated" /\ NotFoundMarked(log[c].last[1].error)
    /\ result[c].exc = RunCommandError

\* the part of the destination after remote_dir and the separator
ChildName(c) == SubSeq(CopyDest(c), Len(op[c].dst) + 2, Len(CopyDest(c)))

\* C20 as stated: the destination of a CopyInto is remote_dir, a separator and
\* one name that is not empty and has no separator in it.
C20_DirectChild ==
  \A c \in Clients :
    (op[c].name = "CopyInto" /\ call[c].cmd # <<>>) =>
      /\ Len(CopyDest(c)) >= Len(op[c].dst) + 1
      /\ SubSeq(CopyDest(c), 1, Len(op[c].dst) + 1) = op[c].dst \o <<"/">>
      /\ ChildName(c) # <<>>
      /\ ~Contains(ChildName(c), "/")

C20_Witness ==
  \E c \in Clients :
    /\ op[c].name = "CopyInto" /\ Finished(c)
    /\ op[c].filename = << <<"sub", "/">> >>
    /\ CopyDest(c) = RemoteDir \o <<"/">>

\* ------------------------------------------------------------- properties of dry-run clients
\* C14 as stated: the operations of a dry-run client run no command, on remote
\* and on local paths, and take no retry.
C14_DryRunRunsNothing ==
  \A c \in Clients :
    (ctx.dry_run /\ op[c].name # "") =>
      /\ ~snap[c].ran
      /\ log[c].tries = 0
      /\ slept[c] = <<>>

C14_Witness ==
  \E c \in Clients :
    /\ ctx.dry_run /\ op[c].name = "Cat" /\ op[c].src = LocalFile /\ Finished(c)
    /\ snap[c].ran /\ log[c].tries = 1
    /\ result[c].value = <<LocalRun(call[c].cmd)>>

\* C15 as stated: an operation of a dry-run client that ends in DoCommand has a
\* result with exit status 0 and empty output to work on, and returns.
C15_DryRunResult ==
  \A c \in Clients :
    (ctx.dry_run /\ Finished(c) /\ call[c].cmd # <<>> /\ ~call[c].direct) =>
      /\ result[c].status = "returned"
      /\ result[c].res # <<>>
      /\ result[c].res[1].returncode = 0
      /\ result[c].res[1].output = <<>>

C15_Witness ==
  \E c \in Clients :
    /\ ctx.dry_run /\ op[c].name = "Get" /\ Finished(c)
    /\ ~snap[c].ran /\ result[c] = Raised("AttributeError", <<>>)

\* ------------------------------------------------------------- properties of the functions
Classes ==
  {"NotFound", "PreconditionFailed", "ResumableTransferFailure", "AuthorizationFailure",
   "SignalTerminated", "Generic"}

\* what the filter does with a failure of each class
ClassDecision(class, res) ==
  CASE class = "SignalTerminated" -> Returned(<<FALSE>>, res)
    [] class = "PreconditionFailed" -> Raised(GSContextPreconditionFailed, res)
    [] class = "NotFound" -> Raised(GSNoSuchKey, res)
    [] OTHER -> Returned(<<TRUE>>, res)

\* C13: every failed result, whatever its exit status and its error text, has
\* exactly one of the six classes, and what the filter decides about it (stop,
\* typed error, retry) is what it decides for every result of that class.
C13_Classification ==
  \A c \in Clients :
    op[c].name = "_RetryFilter" =>
      /\ Cardinality({k \in Classes : k = LastClass(c)}) = 1
      /\ result[c] = ClassDecision(LastClass(c), log[c].last)

C13_Witness ==
  \E c \in Clients :
    /\ op[c].name = "_RetryFilter"
    /\ log[c].last[1].returncode = 1
    /\ log[c].last[1].error =
         <<"GSResponseError", "code=PreconditionFailed", "code=NoSuchKey",
           "CommandException: No URIs matched", "detail=Authorization">>
    /\ result[c].exc = GSContextPreconditionFailed

IsCanonicalize(c) == op[c].name = "CanonicalizeURL"
Canon(url) == CanonicalizeURL(url, FALSE).value

\* C18 as stated: canonicalizing a canonicalized URL changes nothing, and a
\* bucket and key written after the public prefix, after the private prefix
\* and after gs:// canonicalize to the same URL.
C18_Canonical ==
  \A c \in Clients :
    (IsCanonicalize(c) /\ result[c].status = "returned") =>
      /\ CanonicalizeURL(result[c].value, op[c].strict).status = "returned"
      /\ CanonicalizeURL(result[c].value, op[c].strict).value = result[c].value
      /\ (op[c].src # <<>> /\ op[c].src[1] = BASE_GS_URL) =>
           /\ Canon(<<PUBLIC_BASE_HTTPS_URL>> \o Tail(op[c].src)) = result[c].value
           /\ Canon(<<PRIVATE_BASE_HTTPS_URL>> \o Tail(op[c].src)) = result[c].value

C18_Witness ==
  \E c \in Clients :
    /\ IsCanonicalize(c) /\ result[c].status = "returned"
    /\ op[c].src = <<BASE_GS_URL, "b", PUBLIC_BASE_HTTPS_URL>>
    /\ result[c].value = op[c].src
    /\ Canon(<<PUBLIC_BASE_HTTPS_URL, "b", PUBLIC_BASE_HTTPS_URL>>)
         = <<BASE_GS_URL, "b", BASE_GS_URL>>

\* the idempotence half of C18 alone
CanonicalizeIdempotent ==
  \A c \in Clients :
    (IsCanonicalize(c) /\ result[c].status = "returned") =>
      CanonicalizeURL(result[c].value, op[c].strict) = CanonicalizeURL(op[c].src, op[c].strict)

HasHttpsPrefix(url) ==
  url # <<>> /\ url[1] \in {PUBLIC_BASE_HTTPS_URL, PRIVATE_BASE_HTTPS_URL}

\* C19 as stated: of a URL with an HTTPS prefix only the prefix is replaced,
\* by gs://, and no other URL with that prefix canonicalizes to the same URL.
C19_PrefixOnly ==
  \A c \in Clients :
    (IsCanonicalize(c) /\ HasHttpsPrefix(op[c].src)) =>
      /\ result[c].status = "returned"
      /\ result[c].value = <<BASE_GS_URL>> \o Tail(op[c].src)
      /\ \A u \in Urls :
           (HasHttpsPrefix(u) /\ u[1] = op[c].src[1] /\ u # op[c].src)
             => Canon(u) # result[c].value

C19_Witness ==
  \E c \in Clients :
    /\ IsCanonicalize(c)
    /\ op[c].src = <<PUBLIC_BASE_HTTPS_URL, "b", PUBLIC_BASE_HTTPS_URL>>
    /\ result[c].value = <<BASE_GS_URL, "b", BASE_GS_URL>>
    /\ Canon(<<PUBLIC_BASE_HTTPS_URL, "b", BASE_GS_URL>>) = result[c].value

\* ------------------------------------------------------------- properties of Cat, Get and SetACL
IsLocal(path) == ~StartsWith(path, BASE_GS_URL)

\* C21: a Cat of a remote path whose object is not there, run undisturbed,
\* ends with GSNoSuchKey; a Cat of a local path runs cat itself and never the
\* storage tool, and that command is run once and no more, whatever retries
\* the caller passed and the client has.
C21_Cat ==
  \A c \in Clients :
    op[c].name = "Cat" =>
      /\ (/\ ~IsLocal(op[c].src) /\ Finished(c) /\ Undisturbed(c)
          /\ ~HasObject(Probed(c), op[c].src))
           => result[c] = Raised(GSNoSuchKey, log[c].last)
      /\ IsLocal(op[c].src) =>
           /\ call[c].cmd = << <<"cat">>, op[c].src >>
           /\ call[c].direct
           /\ log[c].tries <= 1
           /\ slept[c] = <<>>
           /\ Finished(c) => log[c].tries = 1

C21_Witness ==
  \E c \in Clients :
    /\ op[c].name = "Cat" /\ op[c].src = LocalFile /\ Finished(c)
    /\ op[c].retries = <<MaxRetries + 1>> /\ ctx.retries = MaxRetries
    /\ log[c].tries = 1 /\ log[c].last[1].returncode = 1
    /\ result[c].exc = RunCommandError

\* a finished Cat of an absent remote object
C21_WitnessRemote ==
  \E c \in Clients :
    /\ op[c].name = "Cat" /\ op[c].src = CounterPath /\ Finished(c) /\ Undisturbed(c)
    /\ ~HasObject(Probed(c), CounterPath) /\ result[c].exc = GSNoSuchKey

CopyRetriesArgumentKept ==
  \E c \in Clients :
    /\ op[c].name = "Copy" /\ op[c].retries = <<MaxRetries + 1>> /\ op[c].dst = LocalDest
    /\ log[c].tries = 2

NoDefaultAcl == ctx.acl = <<>> \/ ctx.acl = << <<>> >>

\* C23: a SetACL called without an acl by a client that has no default acl
\* ends with GSContextException and has run no command; called with an acl it
\* runs setacl with that acl, and called without one it runs setacl with the
\* default acl of the client.
C23_SetACL ==
  \A c \in Clients :
    op[c].name = "SetACL" =>
      IF op[c].acl = <<>> /\ NoDefaultAcl
      THEN /\ call[c] = NoCall
           /\ log[c].tries = 0 /\ snap[c] = NoSnap
           /\ pc[c] = "idle" => result[c] = Raised(GSContextException, <<>>)
      ELSE /\ call[c].cmd =
                <<GsutilBin, <<"setacl">>,
                  IF op[c].acl # <<>> THEN op[c].acl[1] ELSE ctx.acl[1], op[c].dst>>
           /\ pc[c] = "idle" => result[c].exc # GSContextException

C23_Witness ==
  \E c \in Clients :
    /\ op[c].name = "SetACL" /\ Finished(c)
    /\ op[c].acl = <<UploadACL>> /\ ctx.acl = << <<"private">> >>
    /\ call[c].cmd = <<GsutilBin, <<"setacl">>, UploadACL, CounterPath>>
    /\ LastClass(c) = "" /\ result[c].status = "returned"

\* a SetACL that raised the configuration error
SetACLRefused ==
  \E c \in Clients :
    /\ op[c].name = "SetACL" /\ Finished(c) /\ ctx.acl = << <<>> >>
    /\ result[c] = Raised(GSContextException, <<>>)

\* C24: a finished Get whose cat ran undisturbed returned the number the
\* counter object held, and returned 0 when the object was not there; a Get
\* whose cat failed as NotFound returned 0 and raised nothing; and the store
\* is after every run of its cat what it was before.
C24_Get ==
  \A c \in Clients :
    op[c].name = "Get" =>
      /\ snap[c].ran => store = snap[c].before
      /\ (Finished(c) /\ Undisturbed(c) /\ ~HasObject(Probed(c), op[c].dst))
           => result[c] = Returned(<<0>>, log[c].last)
      /\ (Finished(c) /\ Undisturbed(c) /\ HasObject(Probed(c), op[c].dst)
            /\ IsInt(Probed(c)[op[c].dst].content))
           => result[c] = Returned(<<StrToInt(Probed(c)[op[c].dst].content)>>, log[c].last)
      /\ (Finished(c) /\ LastClass(c) = "NotFound")
           => result[c] = Returned(<<0>>, log[c].last)

C24_Witness ==
  \E c \in Clients :
    /\ op[c].name = "Get" /\ Finished(c) /\ Undisturbed(c)
    /\ ~HasObject(Probed(c), CounterPath) /\ ~HasObject(store, CounterPath)
    /\ LastClass(c) = "NotFound" /\ result[c] = Returned(<<0>>, log[c].last)

\* a Get that returned the number of an object that is there
GetReadValue ==
  \E c \in Clients :
    /\ op[c].name = "Get" /\ Finished(c) /\ Undisturbed(c)
    /\ result[c].status = "returned" /\ result[c].value = <<5>>

\* ------------------------------------------------------------- properties of the construction
AllReturns == UNION {{returns[c][i] : i \in 1..Len(returns[c])} : c \in Clients}

\* C25 as stated: the default path of the tool is resolved at most once, also
\* when threads call GetDefaultGSUtilBin or construct clients at the same time
\* before it is set; once set it keeps its value and every call returns it.
C25_ResolvedOnce ==
  /\ Len(resolved) <= 1
  /\ DEFAULT_GSUTIL_BIN # <<>> => DEFAULT_GSUTIL_BIN = <<resolved[1]>>
  /\ \A v \in AllReturns : v = resolved[1]

C25_Witness ==
  /\ Len(resolved) = 2 /\ resolved[1] # resolved[2]
  /\ returns["c1"] = <<resolved[1]>> /\ returns["c2"] = <<resolved[2]>>
  /\ op["c1"].name = "__init__" /\ op["c2"].name = "GetDefaultGSUtilBin"
  /\ DEFAULT_GSUTIL_BIN = <<resolved[2]>>

\* calls that do not overlap resolve the path once: the second resolution is
\* always by a thread that made the test before the first assignment
ResolvedAgainOnlyInRace ==
  [][(Len(resolved') > Len(resolved) /\ resolved # <<>>)
       => \E c \in Clients : pc[c] = "GetDefaultGSUtilBin_144" /\ DEFAULT_GSUTIL_BIN # <<>>]_vars

\* the BOTO_CONFIG of the extra_env a caller passed, if it has one
PassedBoto(c) ==
  IF op[c].extra_env # <<>> /\ "BOTO_CONFIG" \in DOMAIN op[c].extra_env[1]
  THEN <<op[c].extra_env[1]["BOTO_CONFIG"]>> ELSE <<>>

ExplicitBotoWins ==
  \E c \in Clients :
    /\ op[c].name = "__init__" /\ Finished(c) /\ environ = <<EnvBoto>>
    /\ op[c].boto_file = <<ExplicitBoto>> /\ self[c].boto_file = ExplicitBoto

\* a dict the caller passes again carries the BOTO_CONFIG an earlier command
\* of another client put into it
ReusedEnvKeepsFirstFile ==
  \E c \in Clients :
    /\ op[c].name = "DoCommand" /\ op[c].reused
    /\ self[c].boto_file = DEFAULT_BOTO_FILE
    /\ call[c].extra_env["BOTO_CONFIG"] = ExplicitBoto

\* ------------------------------------------------------------- properties of the counter's loop
\* the generation a probe of the counter made in this step reads: that of the
\* object in the store, or 0 when the run was disturbed or the answer lacks
\* the header
Reread(c) ==
  IF snap'[c].fault # <<>> \/ "x-goog-generation" \in snap'[c].hide THEN 0
  ELSE CurGen(store, CounterPath)
\* the number a cat of the counter made in this step gives Get
ReadValue(c) ==
  IF HasObject(store, CounterPath) THEN StrToInt(store[CounterPath].content) ELSE 0
Leaves(c, p) == pc[c] = p /\ pc'[c] # p

SameGenerationRaised ==
  \E c \in Clients :
    /\ op[c].name = "Increment" /\ Finished(c) /\ rejected[c] = 1
    /\ result[c].exc = GSContextPreconditionFailed /\ loc[c].generation # 0

\* the conditional writes client c's call has attempted so far
WritesAttempted(c) ==
  rejected[c] + (IF pc[c] = "Increment_102" \/ (Finished(c) /\ result[c].value # <<>>)
                 THEN 1 ELSE 0)

\* C28: every Increment call ends, whatever the other writers do, and it
\* attempts at most retries + 1 conditional writes.
C28_Terminates ==
  /\ [](\A c \in Clients : /\ WritesAttempted(c) <= ctx.retries + 1
                            /\ loc[c].iter <= ctx.retries + 1)
  /\ \A c \in Clients : (pc[c] # "idle") ~> (pc[c] = "idle")

C28_Witness ==
  \E c \in Clients :
    /\ ctx.retries = 2 /\ pc[c] = "Increment_102" /\ rejected[c] = 2 /\ loc[c].iter = 3

\* C29: a finished Increment call either returned the integer it wrote or
\* raised an error; it never returned without a value.
C29_ReturnsOrRaises ==
  \A c \in Clients :
    (Finished(c) /\ op[c].name = "Increment") =>
      \/ result[c].status = "raised"
      \/ /\ result[c].status = "returned" /\ result[c].value # <<>>
         /\ \E a \in CounterWrites : a.by = c /\ a.content = IntToStr(result[c].value[1])

\* a call whose retries + 1 writes were all refused returned None
C29_Witness ==
  \E c \in Clients :
    /\ Finished(c) /\ op[c].name = "Increment"
    /\ rejected[c] = ctx.retries + 1 /\ ctx.retries = MaxRetries
    /\ result[c].status = "returned" /\ result[c].value = <<>>
    /\ \A a \in CounterWrites : a.by # c

\* the number the counter object held while it had generation g
ValueAt(g) ==
  IF \E a \in CounterWrites : a.after = g
  THEN StrToInt((CHOOSE a \in CounterWrites : a.after = g).content)
  ELSE StrToInt(StoreWith[CounterPath].content)

\* C30: every accepted write of the counter expected the generation the
\* object had when the write was applied, and wrote one more than the value
\* the object held at that generation, or 1 when that generation is 0,
\* whatever other clients wrote or removed between the call's two reads.
C30_AcceptedWriteFromExpected ==
  \A a \in CounterWrites :
    \E g \in a.expected :
      /\ a.expected = {g} /\ a.before = g
      /\ StrToInt(a.content) = IF g = 0 THEN 1 ELSE ValueAt(g) + 1

\* client c's pending write carries a value read from another generation
\* than the one it expects
MismatchedCandidate(c) ==
  /\ pc[c] = "Increment_102" /\ loc[c].generation # 0
  /\ loc[c].value # ValueAt(loc[c].generation) + 1

\* a call whose first candidate was refused wrote, in the end, one more than
\* the value at the generation it expected, after other clients changed the
\* counter twice during the call
C30_Witness ==
  \E c \in Clients :
    /\ Finished(c) /\ rejected[c] >= 1 /\ interf[c] >= 2
    /\ \E a \in CounterWrites :
         /\ a.by = c /\ a.expected # {0}
         /\ result[c].value = <<StrToInt(a.content)>>
         /\ \A g \in a.expected : StrToInt(a.content) = ValueAt(g) + 1

\* the mismatched candidate does occur, and is then refused
MismatchedCandidateRefused ==
  [][\A c \in Clients :
       (MismatchedCandidate(c) /\ pc'[c] # pc[c])
         => (accepted' = accepted /\ rejected'[c] = rejected[c] + 1)]_vars

\* ------------------------------------------------------------- one write per call
WritesBy(c) == {a \in CounterWrites : a.by = c}

\* C31: the calls of a client apply no more writes than there are calls, also
\* when the store applied a conditional write and reported a failure that is
\* retried: a returning Increment raised the stored value by exactly one.
C31_OneWritePerCall ==
  \A c \in Clients : Cardinality(WritesBy(c)) <= calls[c]

\* one call wrote twice: its first write was applied and reported failed, the
\* retry inside Copy was refused, and the loop wrote one more
C31_Witness ==
  \E c \in Clients :
    /\ calls[c] = 1 /\ Finished(c) /\ result[c].status = "returned"
    /\ Cardinality(WritesBy(c)) = 2
    /\ rejected[c] = 1 /\ loc[c].caught = GSContextPreconditionFailed
    /\ \E a1, a2 \in WritesBy(c) :
         /\ a2.before = a1.after
         /\ StrToInt(a2.content) = StrToInt(a1.content) + 1
         /\ result[c].value = <<StrToInt(a2.content)>>

\* ------------------------------------------------------------- the counter never goes back
ReturnedAt == {<<c, i>> : c \in Clients, i \in 1..MaxCalls}
UniqueReturns ==
  \A x, y \in ReturnedAt :
    (x # y /\ x[2] <= Len(returns[x[1]]) /\ y[2] <= Len(returns[y[1]]))
      => returns[x[1]][x[2]] # returns[y[1]][y[2]]

\* C32: while clients interleave Get and Increment and nobody removes the
\* counter, the stored value never decreases, every accepted write raises it
\* by exactly one, and no two Increment calls return the same value.
C32_Monotonic ==
  [][/\ CounterValue' >= CounterValue
     /\ accepted' # accepted => CounterValue' = CounterValue + 1
     /\ CounterValue' # CounterValue => accepted' # accepted
     /\ UniqueReturns']_vars

C32_Witness ==
  \E c, d \in Clients :
    /\ c # d /\ Len(returns[c]) = 1 /\ Len(returns[d]) = 1
    /\ op[d].name = "Get" /\ Finished(d) /\ result[d].value = <<CounterValue>>
    /\ returns[c][1] # returns[d][1]
    /\ Cardinality(CounterWrites) = 2

\* ------------------------------------------------------------- the order of the rules
FilterOf(c) == op[c].name = "_RetryFilter"
Failed(c) == log[c].last[1]
IsCp(cmd) == Contains(SubSeq(cmd, 1, Len(cmd) - 2), <<"cp">>)

SignalFirst ==
  \E c \in Clients :
    /\ FilterOf(c) /\ Failed(c).returncode < 0
    /\ PreconditionMarked(Failed(c).error) /\ ResumableMarked(Failed(c).error)
    /\ result[c].value = <<FALSE>>

\* ------------------------------------------------------------- the casing of the error text
\* what the filter decides about the result r
FilterDecision(r) ==
  LET f == RetryFilter([exc |-> RunCommandError, result |-> r])
  IN [raise |-> f.raise, ret |-> f.ret, unlink |-> f.unlink]

\* C34: what the filter decides about a failed result is what it decides
\* about the same result with the error text in the markers' casing, and a
\* failed result with an empty error text that no signal ended is retried
\* without an exception.
C34_CaseIndependent ==
  \A c \in Clients :
    FilterOf(c) =>
      /\ \E d \in {FilterDecision([Failed(c) EXCEPT !.error = op[c].src])} :
           /\ result[c].exc = (IF d.raise # <<>> THEN d.raise[1] ELSE "")
           /\ result[c].value = d.ret
           /\ trackers = TrackerDir \ d.unlink
      /\ (Failed(c).error = <<>> /\ Failed(c).returncode > 0) =>
           result[c] = Returned(<<TRUE>>, <<>>)

\* a failed precondition reported in lower case was taken for a failure to retry
C34_Witness ==
  \E c \in Clients :
    /\ FilterOf(c) /\ Failed(c).returncode = 1
    /\ op[c].src = <<"GSResponseError", "code=PreconditionFailed">>
    /\ Failed(c).error = <<"gsresponseerror", "code=preconditionfailed">>
    /\ result[c] = Returned(<<TRUE>>, <<>>)

\* the part of C34 that holds: an empty error text is retried, nothing raised
EmptyTextRetried ==
  \A c \in Clients :
    (FilterOf(c) /\ Failed(c).error = <<>> /\ Failed(c).returncode > 0) =>
      result[c] = Returned(<<TRUE>>, <<>>)
EmptyTextSeen ==
  \E c \in Clients : FilterOf(c) /\ Failed(c).error = <<>> /\ Failed(c).returncode > 0

\* ------------------------------------------------------------- remote paths in HTTPS form
\* the path is remote once canonicalized
IsRemote(path) == StartsWith(Canon(path), BASE_GS_URL)
Running(c) == pc[c] \in {"Cat_259", "LS_467", "Copy_457"}

\* C35: a Cat or LS of a path that is remote in any of its three forms, and a
\* Copy with such a source or destination, runs the storage tool with the
\* retry budget of the client, never the local cat or ls and never the
\* local copy without retries.
C35_CanonicalFirst ==
  \A c \in Clients :
    /\ (Running(c) /\ op[c].name \in {"Cat", "LS"} /\ IsRemote(op[c].src)) =>
         /\ ~call[c].direct
         /\ call[c].cmd[1] = ctx.gsutil_bin
         /\ call[c].retries = ctx.retries
    /\ (Running(c) /\ op[c].name = "Copy" /\ (IsRemote(op[c].src) \/ IsRemote(op[c].dst))) =>
         call[c].retries = ctx.retries

\* a Cat of the counter in its public HTTPS form ran the local cat, once,
\* and failed for want of such a file
C35_Witness ==
  \E c \in Clients :
    /\ op[c].name = "Cat" /\ op[c].src = <<PUBLIC_BASE_HTTPS_URL>> \o Tail(CounterPath)
    /\ Finished(c) /\ ctx.retries = MaxRetries /\ snap[c].fault = <<>>
    /\ log[c].tries = 1
    /\ log[c].last[1].cmd = << <<"cat">>, op[c].src >>
    /\ result[c].exc = RunCommandError

\* a Copy between two HTTPS forms has no retries
HttpsCopyNoRetries ==
  \E c \in Clients :
    /\ op[c].name = "Copy" /\ pc[c] = "Copy_457" /\ ctx.retries = MaxRetries
    /\ op[c].src = <<PRIVATE_BASE_HTTPS_URL>> \o Tail(CounterPath)
    /\ op[c].dst = <<PUBLIC_BASE_HTTPS_URL>> \o Tail(CounterPath)
    /\ call[c].retries = 0

\* the gs:// form is handled as the claim says
GsFormRemote ==
  \A c \in Clients :
    /\ (Running(c) /\ op[c].name \in {"Cat", "LS"} /\ ~IsLocal(op[c].src)) =>
         ~call[c].direct /\ call[c].retries = ctx.retries
    /\ (Running(c) /\ op[c].name = "Copy" /\ (~IsLocal(op[c].src) \/ ~IsLocal(op[c].dst))) =>
         call[c].retries = ctx.retries

\* ------------------------------------------------------------- C36
\* the credential file the construction of c configured is not there
BotoMissing(c) == ~IsFile(files, InitBotoFile(op[c].boto_file, environ))
Constructing(c) == op[c].name = "__init__" /\ pc[c] # "idle"

\* C36: the presence of the configured credential file is checked before the
\* construction runs any command, for an explicit, an environment and the
\* default path, with init_boto or without: while the file is missing a
\* construction runs no command, and it ends with a failure.
C36_CheckedBeforeCommands ==
  [][\A c \in Clients :
       (Constructing(c) /\ BotoMissing(c)) =>
          /\ log'[c].tries = log[c].tries
          /\ pc'[c] = "idle" => result'[c].status = "raised"]_vars

\* a construction with the default path ended well although the file is missing
C36_Witness ==
  \E c \in Clients :
    /\ op[c].name = "__init__" /\ Finished(c) /\ result[c].status = "returned"
    /\ self[c].constructed /\ self[c].boto_file = DEFAULT_BOTO_FILE
    /\ ~IsFile(files, DEFAULT_BOTO_FILE)
    /\ log[c].tries = 0

\* with init_boto ls was run for an explicit file that is missing, and the
\* check of the file came after it
LsBeforeCheck ==
  \E c \in Clients :
    /\ op[c].name = "__init__" /\ op[c].init_boto /\ op[c].boto_file = <<ExplicitBoto>>
    /\ Finished(c) /\ result[c].exc = GSContextException
    /\ log[c].tries = 1 /\ call[c].cmd = <<GivenBin, <<"ls">> >>
    /\ ~IsFile(files, ExplicitBoto)

\* without init_boto a missing file that is not the default one is refused
\* before any command
MissingFileRefused ==
  \E c \in Clients :
    /\ op[c].name = "__init__" /\ ~op[c].init_boto /\ environ = <<EnvBoto>>
    /\ op[c].boto_file = <<>> /\ ~IsFile(files, EnvBoto)
    /\ Finished(c) /\ result[c].exc = GSContextException /\ log[c].tries = 0

\* ------------------------------------------------------------- C37
\* the retries the command of c has taken so far
RetriesTaken(c) ==
  IF pc[c] = "idle" /\ log[c].tries > 0 THEN log[c].tries - 1 ELSE log[c].tries

\* C37: the sleeps between the attempts of a command grow linearly: before the
\* k-th retry the client sleeps k times the base sleep time, and it sleeps
\* neither before the first attempt nor after the last failed one.
C37_LinearBackoff ==
  \A c \in Clients :
    /\ Len(slept[c]) = RetriesTaken(c)
    /\ \A k \in 1..Len(slept[c]) : slept[c][k] = k * ctx.sleep_time

\* a command failed three times and was given up: two sleeps, none after the
\* last failure
C37_Witness ==
  \E c \in Clients :
    /\ Finished(c) /\ result[c].status = "raised" /\ log[c].generic
    /\ log[c].tries = 3 /\ call[c].retries = 2
    /\ slept[c] = <<DEFAULT_SLEEP_TIME, 2 * DEFAULT_SLEEP_TIME>>

\* ------------------------------------------------------------- C38
\* C38: the tracker files of a destination are a function of the destination,
\* two different destinations have no tracker file in common, and what a
\* failed transfer removes are its own tracker files only: those of the
\* transfers to other destinations stay in the directory.
C38_OwnTrackersOnly ==
  \A c \in Clients :
    op[c].name = "Copy" =>
      \A d \in TrackedDests \ {op[c].dst} :
        /\ GetTrackerFilenames(d) \cap GetTrackerFilenames(op[c].dst) = {}
        /\ GetTrackerFilenames(d) \subseteq trackers

\* an upload to gs://b/a/b failed with a resumable failure, and the tracker
\* file of the upload to gs://b/a_b is gone
C38_Witness ==
  \E c \in Clients :
    /\ op[c].name = "Copy" /\ op[c].dst = DestSlash
    /\ log[c].last # <<>> /\ FailureClass(log[c].last[1]) = "ResumableTransferFailure"
    /\ DestUnder # DestSlash
    /\ GetTrackerFilenames(DestUnder) \subseteq TrackerDir
    /\ GetTrackerFilenames(DestUnder) \cap trackers = {}

\* the tracker file of a destination whose name does not differ in "/" and "_"
\* only is kept
UnrelatedTrackerKept ==
  \E c \in Clients :
    /\ op[c].name = "Copy" /\ op[c].dst = DestSlash
    /\ log[c].last # <<>> /\ FailureClass(log[c].last[1]) = "ResumableTransferFailure"
    /\ GetTrackerFilenames(CounterPath) \subseteq trackers
    /\ OtherTracker \in trackers

\* ------------------------------------------------------------- C39
\* C39: TemporaryURL removes the URL, ignoring that it is missing, once before
\* the body and once after it; the second removal comes on every way out of
\* the body, a raised exception included; and no removal fails because there
\* is no object at the URL.
C39_RemovedBeforeAndAfter ==
  \A c \in Clients :
    op[c].name = "TemporaryURL" =>
      /\ pc[c] = "TemporaryURL_556" => loc[c].removals = 1 /\ loc[c].body = ""
      /\ loc[c].body # "" => loc[c].removals >= 1
      /\ (Finished(c) /\ loc[c].body # "") => loc[c].removals = 2
      /\ (Finished(c) /\ loc[c].body = "") =>
            loc[c].removals = 1 /\ result[c].status = "raised"
      /\ Finished(c) => result[c].exc # GSNoSuchKey

\* the body raised, the URL was removed after it although no object was there,
\* and the exception of the body came out
C39_Witness ==
  \E c \in Clients :
    /\ op[c].name = "TemporaryURL" /\ Finished(c)
    /\ loc[c].body = "raised" /\ loc[c].removals = 2
    /\ result[c].exc = BodyError
    /\ log[c].last # <<>> /\ FailureClass(log[c].last[1]) = "NotFound"
    /\ ~HasObject(store, op[c].dst)

\* the first removal removed an object that was at the URL
FirstRemovalRemoves ==
  \E c \in Clients :
    /\ op[c].name = "TemporaryURL" /\ pc[c] = "TemporaryURL_556"
    /\ HasObject(snap[c].before, op[c].dst) /\ ~HasObject(store, op[c].dst)

====
